---- MODULE Spec2Model ----
(***************************************************************************)
(* Transcript-Analyzer: the parsing core (TranscriptParser).               *)
(*                                                                         *)
(* Representation.  A character is a one-character string.  A line is a    *)
(* sequence of characters.  A JavaScript string is represented by the      *)
(* sequence of its maximal newline-free segments, so String.split('\n')    *)
(* of a string is that sequence itself and the empty string is << <<>> >>. *)
(* A call argument is a record [type, text]; type is the JavaScript type   *)
(* of the argument ("string", "null", "undefined", "number").              *)
(*                                                                         *)
(* An error message is represented by its throw site (msg) and, for the    *)
(* aggregated message, by the list of its "Line k: ..." items, each a      *)
(* record [line, msg]; the interpolated text of an item is not kept.       *)
(***************************************************************************)
EXTENDS Integers, Sequences, FiniteSets, TLC

VARIABLES input, pc, call, outcome

vars == <<input, pc, call, outcome>>

(***************************************************************************)
(* Characters                                                              *)
(***************************************************************************)
DigitSeq == <<"0", "1", "2", "3", "4", "5", "6", "7", "8", "9">>
UpperSeq == <<"A", "B", "C", "D", "E", "F", "G", "H", "I", "J", "K", "L", "M",
              "N", "O", "P", "Q", "R", "S", "T", "U", "V", "W", "X", "Y", "Z">>
LowerSeq == <<"a", "b", "c", "d", "e", "f", "g", "h", "i", "j", "k", "l", "m",
              "n", "o", "p", "q", "r", "s", "t", "u", "v", "w", "x", "y", "z">>

Range(s) == {s[i] : i \in 1..Len(s)}

\* \d
IsDigit(c) == c \in Range(DigitSeq)
\* \s (the newline never occurs inside a segment)
IsSpace(c) == c \in {" ", "\t", "\r", "\n"}
\* . (any character but a line terminator)
IsDot(c) == c \notin {"\n", "\r"}
\* [A-Z]
IsUpper(c) == c \in Range(UpperSeq)

DigitVal(c) == (CHOOSE i \in 1..10 : DigitSeq[i] = c) - 1

LowerChar(c) ==
    IF IsUpper(c) THEN LowerSeq[CHOOSE i \in 1..26 : UpperSeq[i] = c] ELSE c

\* String.prototype.toLowerCase
toLowerCase(s) == [i \in 1..Len(s) |-> LowerChar(s[i])]

AllSpace(s) == \A i \in 1..Len(s) : IsSpace(s[i])

FirstNonSpace(s) ==
    CHOOSE i \in 1..Len(s) : ~IsSpace(s[i]) /\ \A j \in 1..(i - 1) : IsSpace(s[j])
LastNonSpace(s) ==
    CHOOSE i \in 1..Len(s) : ~IsSpace(s[i]) /\ \A j \in (i + 1)..Len(s) : IsSpace(s[j])

trimStart(s) == IF AllSpace(s) THEN <<>> ELSE SubSeq(s, FirstNonSpace(s), Len(s))
trimEnd(s) == IF AllSpace(s) THEN <<>> ELSE SubSeq(s, 1, LastNonSpace(s))
\* String.prototype.trim on a newline-free string
trim(s) == trimEnd(trimStart(s))

\* String.prototype.trim on a string given by its segments: the newline is
\* white space, so leading and trailing blank segments go with it.
trimText(text) ==
    IF \A i \in 1..Len(text) : AllSpace(text[i]) THEN << <<>> >>
    ELSE LET first == CHOOSE i \in 1..Len(text) :
                          ~AllSpace(text[i]) /\ \A j \in 1..(i - 1) : AllSpace(text[j])
             last  == CHOOSE i \in 1..Len(text) :
                          ~AllSpace(text[i]) /\ \A j \in (i + 1)..Len(text) : AllSpace(text[j])
         IN  [k \in 1..(last - first + 1) |->
                 IF first = last THEN trim(text[first])
                 ELSE IF k = 1 THEN trimStart(text[first])
                 ELSE IF k = last - first + 1 THEN trimEnd(text[last])
                 ELSE text[first + k - 1]]

\* String.prototype.split('\n')
split(text) == text

\* String.prototype.includes
includes(s, w) ==
    \E p \in 1..(Len(s) - Len(w) + 1) : SubSeq(s, p, p + Len(w) - 1) = w

\* index of the first character of s at or after p that satisfies / fails Test
IndexFrom(s, p, c) ==
    IF \E i \in p..Len(s) : s[i] = c
    THEN CHOOSE i \in p..Len(s) : s[i] = c /\ \A j \in p..(i - 1) : s[j] # c
    ELSE 0
\* end of the white-space run that starts at p (p - 1 when there is none)
SpaceRunEnd(s, p) ==
    IF p > Len(s) \/ ~IsSpace(s[p]) THEN p - 1
    ELSE CHOOSE i \in p..Len(s) :
             /\ \A j \in p..i : IsSpace(s[j])
             /\ (i = Len(s) \/ ~IsSpace(s[i + 1]))
\* end of the run of non-white-space that starts at p (p - 1 when there is none)
TokenRunEnd(s, p) ==
    IF p > Len(s) \/ IsSpace(s[p]) THEN p - 1
    ELSE CHOOSE i \in p..Len(s) :
             /\ \A j \in p..i : ~IsSpace(s[j])
             /\ (i = Len(s) \/ IsSpace(s[i + 1]))

(***************************************************************************)
(* Error codes (src/lib/types.ts) and program constants                    *)
(***************************************************************************)
INVALID_FILE_FORMAT == "INVALID_FILE_FORMAT"
PARSING_ERROR == "PARSING_ERROR"

MIN_CONTENT_LENGTH == 1

(***************************************************************************)
(* Timestamps                                                              *)
(***************************************************************************)
\* The pattern with the hours 24 to 29 let through: 2[0-9] for 2[0-3]
TIMESTAMP_PATTERN_upTo29(s) ==
    LET MinSec(p) == /\ s[p] = ":"
                     /\ s[p + 1] \in {"0", "1", "2", "3", "4", "5"}
                     /\ IsDigit(s[p + 2])
    IN  \/ /\ Len(s) = 8
           /\ s[1] \in {"0", "1", "2"} /\ IsDigit(s[2])
           /\ MinSec(3) /\ MinSec(6)
        \/ /\ Len(s) = 7
           /\ IsDigit(s[1])
           /\ MinSec(2) /\ MinSec(5)

\* TIMESTAMP_PATTERN.test: /^([0-1]?[0-9]|2[0-3]):([0-5][0-9]):([0-5][0-9])$/
TIMESTAMP_PATTERN(s) ==
    LET MinSec(p) == /\ s[p] = ":"
                     /\ s[p + 1] \in {"0", "1", "2", "3", "4", "5"}
                     /\ IsDigit(s[p + 2])
    IN  \/ /\ Len(s) = 8
           /\ \/ s[1] \in {"0", "1"} /\ IsDigit(s[2])
              \/ s[1] = "2" /\ s[2] \in {"0", "1", "2", "3"}
           /\ MinSec(3) /\ MinSec(6)
        \/ /\ Len(s) = 7
           /\ IsDigit(s[1])
           /\ MinSec(2) /\ MinSec(5)

isValidTimestamp(timestamp) == TIMESTAMP_PATTERN(trim(timestamp))

\* Length of the match of \d{1,2}:\d{2}:\d{2} that starts at p; 0 when none.
\* The two-digit and the one-digit hour exclude each other at one position.
TimestampShapeAt(s, p) ==
    LET ShapeTail(q) == /\ q + 5 <= Len(s)
                   /\ s[q] = ":" /\ IsDigit(s[q + 1]) /\ IsDigit(s[q + 2])
                   /\ s[q + 3] = ":" /\ IsDigit(s[q + 4]) /\ IsDigit(s[q + 5])
    IN  IF p < 1 \/ p > Len(s) \/ ~IsDigit(s[p]) THEN 0
        ELSE IF p + 1 <= Len(s) /\ IsDigit(s[p + 1]) /\ ShapeTail(p + 2) THEN 8
        ELSE IF ShapeTail(p + 1) THEN 7
        ELSE 0

\* Number.prototype.toString of a natural number
RECURSIVE toString(_)
toString(n) ==
    IF n < 10 THEN <<DigitSeq[n + 1]>>
    ELSE Append(toString(n \div 10), DigitSeq[(n % 10) + 1])

\* padStart(2, '0') left out
padStart2_none(s) == s

\* String.prototype.padStart(2, '0')
padStart2(s) == IF Len(s) < 2 THEN <<"0">> \o s ELSE s

\* The number NaN; every other number of the model is a natural number
NaN == -1

\* NaN.toString(), and every part of the template literal is NaN when
\* totalSeconds is
Word_NaN == <<"N", "a", "N">>

secondsToTimestamp(totalSeconds) ==
    LET hours   == totalSeconds \div 3600
        minutes == (totalSeconds % 3600) \div 60
        seconds == totalSeconds % 60
    IN  IF totalSeconds = NaN
        THEN Word_NaN \o <<":">> \o Word_NaN \o <<":">> \o Word_NaN
        ELSE padStart2(toString(hours)) \o <<":">> \o padStart2(toString(minutes))
                \o <<":">> \o padStart2(toString(seconds))

\* The sequential timestamp with the 8 seconds of the fallback pass to the line
generateSequentialTimestamp_eightSeconds(lineIndex) == secondsToTimestamp(lineIndex * 8)

generateSequentialTimestamp(lineIndex) == secondsToTimestamp(lineIndex * 10)

(***************************************************************************)
(* Entries and per-line results                                            *)
(***************************************************************************)
Entry(timestamp, section, content) ==
    [timestamp |-> timestamp, section |-> section, content |-> content]

NoEntry == Entry(<<>>, <<>>, <<>>)

\* parseLine / parseGeminiLine returned an entry
Parsed(e) == [kind |-> "entry", entry |-> e, msg |-> ""]
\* parseLine / parseGeminiLine threw a TranscriptParseError
Failed(m) == [kind |-> "error", entry |-> NoEntry, msg |-> m]
\* parseGeminiLine returned null, or the loop skipped an empty line
Skipped == [kind |-> "skip", entry |-> NoEntry, msg |-> ""]

NoMatch == [matched |-> FALSE, timestamp |-> <<>>, section |-> <<>>, content |-> <<>>]
Match(t, s, c) == [matched |-> TRUE, timestamp |-> t, section |-> s, content |-> c]

(***************************************************************************)
(* Strict parser                                                           *)
(***************************************************************************)
\* TRANSCRIPT_LINE_PATTERN.exec: /^-\s+(\d{1,2}:\d{2}:\d{2})\s+(\S+)\s+(.+)$/
\* Every quantifier is greedy and each class excludes the first character of
\* what follows it, so the match, when there is one, is the greedy one; only
\* the last \s+ gives a character back, when (.+) would be left with none.
TRANSCRIPT_LINE_PATTERN(line) ==
    IF Len(line) < 2 \/ line[1] # "-" THEN NoMatch
    ELSE LET ws1 == SpaceRunEnd(line, 2)
             tl  == TimestampShapeAt(line, ws1 + 1)
             ts  == ws1 + tl
             ws2 == SpaceRunEnd(line, ts + 1)
             tok == TokenRunEnd(line, ws2 + 1)
             e   == SpaceRunEnd(line, tok + 1)
             ws3 == IF e = Len(line) THEN e - 1 ELSE e
         IN  IF /\ ws1 >= 2
                /\ tl > 0
                /\ ws2 > ts
                /\ tok > ws2
                /\ ws3 > tok
                /\ \A i \in (ws3 + 1)..Len(line) : IsDot(line[i])
             THEN Match(SubSeq(line, ws1 + 1, ts),
                        SubSeq(line, ws2 + 1, tok),
                        SubSeq(line, ws3 + 1, Len(line)))
             ELSE NoMatch

\* The checks of parseLine with the section put into lower case, not rejected
parseLine_lowercased(match) ==
    IF ~isValidTimestamp(match.timestamp) THEN Failed("Invalid timestamp format")
    ELSE IF Len(trim(match.section)) = 0 THEN Failed("Section name cannot be empty")
    ELSE IF Len(trim(match.content)) < MIN_CONTENT_LENGTH
         THEN Failed("Content cannot be empty")
    ELSE Parsed(Entry(trim(match.timestamp), toLowerCase(trim(match.section)),
                      trim(match.content)))

\* The checks parseLine makes on a line the pattern matched
parseLine_checks(match) ==
    IF ~isValidTimestamp(match.timestamp) THEN Failed("Invalid timestamp format")
    ELSE IF Len(trim(match.section)) = 0 THEN Failed("Section name cannot be empty")
    ELSE IF match.section # toLowerCase(match.section)
         THEN Failed("Section name should be lowercase")
    ELSE IF Len(trim(match.content)) < MIN_CONTENT_LENGTH
         THEN Failed("Content cannot be empty")
    ELSE Parsed(Entry(trim(match.timestamp), trim(match.section), trim(match.content)))

parseLine_matched(match) ==
    IF ~match.matched THEN Failed("Invalid line format") ELSE parseLine_checks(match)

parseLine(line, lineNumber) == parseLine_matched(TRANSCRIPT_LINE_PATTERN(line))

(***************************************************************************)
(* Lenient parser: the line grammars                                       *)
(***************************************************************************)
\* The common tail \s*([^:]+):\s*(.+)$ of patterns 1, 2 and 4, matched from
\* position q with at least minWs white-space characters first (\s+ in
\* pattern 2).  [^:]+ cannot cross a colon, so the colon is the first one at
\* or after q; \s* is greedy and gives one character back when nothing else
\* is left for [^:]+ or for (.+).
SpeakerContent(line, q, minWs) ==
    LET c  == IndexFrom(line, q, ":")
        w  == SpaceRunEnd(line, q) + 1
        a  == IF w < c THEN w ELSE c - 1
        e  == SpaceRunEnd(line, c + 1)
        cs == IF e = Len(line) THEN Len(line) ELSE e + 1
    IN  IF /\ q <= Len(line)
           /\ c > 0
           /\ a >= q + minWs
           /\ c < Len(line)
           /\ \A i \in cs..Len(line) : IsDot(line[i])
        THEN Match(<<>>, SubSeq(line, a, c - 1), SubSeq(line, cs, Len(line)))
        ELSE NoMatch

WithTimestamp(m, t) == IF m.matched THEN Match(t, m.section, m.content) ELSE NoMatch

\* Pattern 1: /^\[(\d{1,2}:\d{2}:\d{2})\]\s*([^:]+):\s*(.+)$/
bracketPattern(line) ==
    LET tl == TimestampShapeAt(line, 2)
    IN  IF /\ Len(line) >= 1 /\ line[1] = "["
           /\ tl > 0
           /\ 2 + tl <= Len(line) /\ line[2 + tl] = "]"
        THEN WithTimestamp(SpeakerContent(line, 3 + tl, 0), SubSeq(line, 2, 1 + tl))
        ELSE NoMatch

\* Pattern 2: /^(\d{1,2}:\d{2}:\d{2})\s+([^:]+):\s*(.+)$/
noBracketPattern(line) ==
    LET tl == TimestampShapeAt(line, 1)
    IN  IF tl > 0
        THEN WithTimestamp(SpeakerContent(line, tl + 1, 1), SubSeq(line, 1, tl))
        ELSE NoMatch

\* Pattern 3: /^([^:]+):\s*\[(\d{1,2}:\d{2}:\d{2})\]\s*(.+)$/
speakerFirstPattern(line) ==
    LET c  == IndexFrom(line, 1, ":")
        b  == SpaceRunEnd(line, c + 1) + 1
        tl == TimestampShapeAt(line, b + 1)
        r  == b + tl + 1
        e  == SpaceRunEnd(line, r + 1)
        cs == IF e = Len(line) THEN Len(line) ELSE e + 1
    IN  IF /\ c >= 2
           /\ b <= Len(line) /\ line[b] = "["
           /\ tl > 0
           /\ r < Len(line) /\ line[r] = "]"
           /\ \A i \in cs..Len(line) : IsDot(line[i])
        THEN Match(SubSeq(line, b + 1, b + tl), SubSeq(line, 1, c - 1),
                   SubSeq(line, cs, Len(line)))
        ELSE NoMatch

\* Pattern 4: /^(\d{1,2}:\d{2}:\d{2})\s*-\s*([^:]+):\s*(.+)$/
dashPattern(line) ==
    LET tl == TimestampShapeAt(line, 1)
        d  == SpaceRunEnd(line, tl + 1) + 1
    IN  IF tl > 0 /\ d <= Len(line) /\ line[d] = "-"
        THEN WithTimestamp(SpeakerContent(line, d + 1, 0), SubSeq(line, 1, tl))
        ELSE NoMatch

\* String.prototype.indexOf, 1-based; 0 when w does not occur
indexOf(s, w) ==
    IF includes(s, w)
    THEN CHOOSE p \in 1..(Len(s) - Len(w) + 1) :
             /\ SubSeq(s, p, p + Len(w) - 1) = w
             /\ \A r \in 1..(p - 1) : SubSeq(s, r, r + Len(w) - 1) # w
    ELSE 0

\* Pattern 5: line.match(/(\d{1,2}:\d{2}:\d{2})/), the leftmost match, and the
\* text after the first occurrence of the matched timestamp, trimmed.  The
\* section field is left empty: the caller supplies the speaker.
timestampInContent(line) ==
    IF \E p \in 1..Len(line) : TimestampShapeAt(line, p) > 0
    THEN LET p  == CHOOSE p \in 1..Len(line) :
                       /\ TimestampShapeAt(line, p) > 0
                       /\ \A r \in 1..(p - 1) : TimestampShapeAt(line, r) = 0
             timestamp == SubSeq(line, p, p + TimestampShapeAt(line, p) - 1)
             from == indexOf(line, timestamp) + Len(timestamp)
         IN  Match(timestamp, <<>>, trim(SubSeq(line, from, Len(line))))
    ELSE NoMatch

\* String.prototype.replace(/\s+/g, '_')
RECURSIVE replaceSpaceRuns(_)
replaceSpaceRuns(s) ==
    IF s = <<>> THEN <<>>
    ELSE IF IsSpace(s[1])
         THEN <<"_">> \o replaceSpaceRuns(SubSeq(s, SpaceRunEnd(s, 1) + 1, Len(s)))
         ELSE <<s[1]>> \o replaceSpaceRuns(SubSeq(s, 2, Len(s)))

createTranscriptEntry(timestamp, speaker, content, lineNumber) ==
    IF ~isValidTimestamp(timestamp) THEN Failed("Invalid timestamp format")
    ELSE IF Len(trim(speaker)) = 0 THEN Failed("Speaker cannot be empty")
    ELSE IF Len(trim(content)) < MIN_CONTENT_LENGTH THEN Failed("Content cannot be empty")
    ELSE Parsed(Entry(trim(timestamp),
                      replaceSpaceRuns(toLowerCase(trim(speaker))),
                      trim(content)))

Word_transcript == <<"t", "r", "a", "n", "s", "c", "r", "i", "p", "t">>
Word_generated == <<"g", "e", "n", "e", "r", "a", "t", "e", "d">>
Word_unknown_speaker ==
    <<"u", "n", "k", "n", "o", "w", "n", "_", "s", "p", "e", "a", "k", "e", "r">>
Word_speaker == <<"s", "p", "e", "a", "k", "e", "r">>

\* /^\d+\.$/.test
IsListMarker(line) ==
    /\ Len(line) >= 2
    /\ line[Len(line)] = "."
    /\ \A i \in 1..(Len(line) - 1) : IsDigit(line[i])

\* The skip test with lines of five characters taken for short as well
SkipLine_fiveIsShort(line) ==
    \/ Len(line) <= 5
    \/ IsListMarker(line)
    \/ includes(toLowerCase(line), Word_transcript)

\* The skip test at the head of parseGeminiLine
SkipLine(line) ==
    \/ Len(line) < 5
    \/ IsListMarker(line)
    \/ includes(toLowerCase(line), Word_transcript)

\* Pattern 6: no colon, more than 20 characters, an upper-case first letter
plainTextPattern(line) ==
    Len(line) > 20 /\ ~includes(line, <<":">>) /\ IsUpper(line[1])

\* Pattern 5 is taken when the text after the timestamp has more than 10
\* characters.
embeddedPattern(m5) == m5.matched /\ Len(m5.content) > 10

\* The tests of parseGeminiLine with pattern 4 tried ahead of pattern 2
GrammarOf_dashFirst(skip, m1, m2, m3, m4, m5, plain) ==
    IF skip THEN 0
    ELSE IF m1.matched THEN 1
    ELSE IF m4.matched THEN 4
    ELSE IF m2.matched THEN 2
    ELSE IF m3.matched THEN 3
    ELSE IF embeddedPattern(m5) THEN 5
    ELSE IF plain THEN 6
    ELSE 7

\* The order of the tests of parseGeminiLine, on the outcome of each test
GrammarOf_tests(skip, m1, m2, m3, m4, m5, plain) ==
    IF skip THEN 0
    ELSE IF m1.matched THEN 1
    ELSE IF m2.matched THEN 2
    ELSE IF m3.matched THEN 3
    ELSE IF m4.matched THEN 4
    ELSE IF embeddedPattern(m5) THEN 5
    ELSE IF plain THEN 6
    ELSE 7

\* The grammar that decides the line: 0 when the line is skipped, 1..6 for the
\* pattern whose branch is taken, 7 when every pattern is passed over.
GrammarOf(line) ==
    GrammarOf_tests(SkipLine(line), bracketPattern(line), noBracketPattern(line),
                    speakerFirstPattern(line), dashPattern(line),
                    timestampInContent(line), plainTextPattern(line))

\* createTranscriptEntry on the groups of a match, with the speaker given
createFromMatch(m, speaker, lineNumber) ==
    createTranscriptEntry(m.timestamp, speaker, m.content, lineNumber)

\* The branch of parseGeminiLine that grammar g takes
parseGeminiLine_branch(line, lineNumber, g) ==
    CASE g = 0 -> Skipped
      [] g = 1 -> createFromMatch(bracketPattern(line), bracketPattern(line).section, lineNumber)
      [] g = 2 -> createFromMatch(noBracketPattern(line), noBracketPattern(line).section,
                                  lineNumber)
      [] g = 3 -> createFromMatch(speakerFirstPattern(line),
                                  speakerFirstPattern(line).section, lineNumber)
      [] g = 4 -> createFromMatch(dashPattern(line), dashPattern(line).section, lineNumber)
      [] g = 5 -> createFromMatch(timestampInContent(line), Word_unknown_speaker, lineNumber)
      [] g = 6 -> createTranscriptEntry(generateSequentialTimestamp(lineNumber - 1),
                                        Word_speaker, line, lineNumber)
      [] OTHER -> Failed("Invalid line format")

parseGeminiLine(line, lineNumber) ==
    parseGeminiLine_branch(line, lineNumber, GrammarOf(line))

(***************************************************************************)
(* The two parsers                                                         *)
(***************************************************************************)
\* What a call gives its caller: the entries it returns or the error it
\* throws, and scanned, the value of the loop variable i when the scan loop was
\* left (0 when the call ended before the loop).
Returned(entries, scanned) ==
    [kind |-> "return", entries |-> entries, code |-> "", msg |-> "",
     errors |-> <<>>, scanned |-> scanned]
Thrown(code, msg, errors, scanned) ==
    [kind |-> "throw", entries |-> <<>>, code |-> code, msg |-> msg,
     errors |-> errors, scanned |-> scanned]
NoOutcome ==
    [kind |-> "none", entries |-> <<>>, code |-> "", msg |-> "",
     errors |-> <<>>, scanned |-> 0]

\* !content
\* !content with the empty string taken for a value
Falsy_emptyStringKept(content) ==
    \/ content.type \in {"null", "undefined"}
    \/ content.type = "number" /\ content.num = 0

Falsy(content) ==
    \/ content.type \in {"null", "undefined"}
    \/ content.type = "number" /\ content.num = 0
    \/ content.type = "string" /\ content.text = << <<>> >>

\* The scan loop of parseTranscript: the result of every line, by line number.
\* An empty trimmed line is passed over.  A throw of parseLine is caught and
\* becomes an item of errors (parseLine throws nothing but a
\* TranscriptParseError), and the loop body holds no break or return: the loop
\* ends at lines.length.
StrictScan(lines) ==
    [i \in 1..Len(lines) |->
        LET line == trim(lines[i])
        IN  IF Len(line) = 0 THEN Skipped ELSE parseLine(line, i)]

\* The scan loop of parseTranscriptFromText, of the same shape.
GeminiScan(lines) ==
    [i \in 1..Len(lines) |->
        LET line == trim(lines[i])
        IN  IF Len(line) = 0 THEN Skipped ELSE parseGeminiLine(line, i)]

Indices(results, kind) ==
    SelectSeq([i \in 1..Len(results) |-> i], LAMBDA i : results[i].kind = kind)

\* entries, sorted the other way round
EntriesOf_reversed(results) ==
    LET idx == Indices(results, "entry")
    IN  [k \in 1..Len(idx) |-> results[idx[Len(idx) + 1 - k]].entry]

\* entries, in push order
EntriesOf(results) ==
    LET idx == Indices(results, "entry")
    IN  [k \in 1..Len(idx) |-> results[idx[k]].entry]

\* errors, in push order: the items `Line ${lineNumber}: ${error.message}`
ErrorsOf(results) ==
    LET idx == Indices(results, "error")
    IN  [k \in 1..Len(idx) |-> [line |-> idx[k], msg |-> results[idx[k]].msg]]

\* parseTranscript after the loop, with the throw of parseLine left uncaught:
\* the first failing line ends the call.
parseTranscript_abortAtFirstError(entries, errors, scanned) ==
    IF Len(errors) > 0
    THEN Thrown(INVALID_FILE_FORMAT, "Failed to parse transcript",
                <<errors[1]>>, errors[1].line)
    ELSE IF Len(entries) = 0
    THEN Thrown(INVALID_FILE_FORMAT, "No valid transcript entries found", <<>>, scanned)
    ELSE Returned(entries, scanned)

\* parseTranscript after the loop
parseTranscript_decide(entries, errors, scanned) ==
    IF Len(errors) > 0
    THEN Thrown(INVALID_FILE_FORMAT, "Failed to parse transcript", errors, scanned)
    ELSE IF Len(entries) = 0
    THEN Thrown(INVALID_FILE_FORMAT, "No valid transcript entries found", <<>>, scanned)
    ELSE Returned(entries, scanned)

parseTranscript_scanned(results) ==
    parseTranscript_decide(EntriesOf(results), ErrorsOf(results), Len(results))

parseTranscript(content) ==
    IF Falsy(content) \/ content.type # "string"
    THEN Thrown(INVALID_FILE_FORMAT, "Invalid input", <<>>, 0)
    ELSE parseTranscript_scanned(StrictScan(split(trimText(content.text))))

secondsPerLine == 8

\* The skip tests of parseTranscriptFallback, on a trimmed line
FallbackSkips(line) ==
    \/ Len(line) = 0
    \/ Len(line) < 5
    \/ includes(toLowerCase(line), Word_transcript)
    \/ includes(toLowerCase(line), Word_generated)
    \/ IsListMarker(line)

\* currentTimestamp starts at 0 and grows by secondsPerLine with every entry
\* pushed, so the k-th entry carries (k - 1) * secondsPerLine seconds.
parseTranscriptFallback(content) ==
    LET lines   == split(trimText(content.text))
        trimmed == [i \in 1..Len(lines) |-> trim(lines[i])]
        kept    == SelectSeq(trimmed, LAMBDA line : ~FallbackSkips(line))
    IN  [k \in 1..Len(kept) |->
            Entry(secondsToTimestamp((k - 1) * secondsPerLine), Word_transcript, kept[k])]

\* The threshold with errors at 80% of the lines let through
BelowErrorThreshold_inclusive(nErrors, nLines) == 5 * nErrors <= 4 * nLines

\* errors.length < lines.length * 0.8.  The double nearest to 0.8 exceeds 0.8
\* by the relative error 2^-54, under half a unit in the last place of any
\* integer product, so the comparison is the exact one.
BelowErrorThreshold(nErrors, nLines) == 5 * nErrors < 4 * nLines

\* parseTranscriptFromText after the loop, the test for an empty list left out
parseTranscriptFromText_allowEmpty(entries, errors, scanned, fallbackEntries) ==
    IF /\ Len(errors) > 0
       /\ BelowErrorThreshold(Len(errors), scanned)
       /\ Len(fallbackEntries) > 0
    THEN Returned(entries \o fallbackEntries, scanned)
    ELSE IF Len(errors) > 0
    THEN Thrown(INVALID_FILE_FORMAT, "Failed to parse transcript", errors, scanned)
    ELSE Returned(entries, scanned)

\* parseTranscriptFromText after the loop; fallbackEntries is evaluated only
\* where the code calls parseTranscriptFallback.
parseTranscriptFromText_decide(entries, errors, scanned, fallbackEntries) ==
    IF /\ Len(errors) > 0
       /\ BelowErrorThreshold(Len(errors), scanned)
       /\ Len(fallbackEntries) > 0
    THEN Returned(entries \o fallbackEntries, scanned)
    ELSE IF Len(errors) > 0
    THEN Thrown(INVALID_FILE_FORMAT, "Failed to parse transcript", errors, scanned)
    ELSE IF Len(entries) = 0
    THEN Thrown(INVALID_FILE_FORMAT, "No valid transcript entries found", <<>>, scanned)
    ELSE Returned(entries, scanned)

parseTranscriptFromText_scanned(content, results) ==
    parseTranscriptFromText_decide(EntriesOf(results), ErrorsOf(results), Len(results),
                                   parseTranscriptFallback(content))

parseTranscriptFromText(content) ==
    IF Falsy(content) \/ content.type # "string"
    THEN Thrown(INVALID_FILE_FORMAT, "Invalid input", <<>>, 0)
    ELSE parseTranscriptFromText_scanned(content, GeminiScan(split(trimText(content.text))))

(***************************************************************************)
(* Seconds of a timestamp                                                  *)
(***************************************************************************)
RECURSIVE digitsValue(_)
digitsValue(s) ==
    IF s = <<>> THEN 0
    ELSE 10 * digitsValue(SubSeq(s, 1, Len(s) - 1)) + DigitVal(s[Len(s)])

\* Number(s) for a string of digits, whitespace, colons and letters: 0 for the
\* empty or blank string, the decimal value of a run of digits with
\* whitespace around it, NaN for the rest.  (Signs, periods, exponents, hex
\* prefixes and "Infinity" are not among the strings of the model.)
Number(s) ==
    IF trim(s) = <<>> THEN 0
    ELSE IF \A j \in 1..Len(trim(s)) : IsDigit(trim(s)[j]) THEN digitsValue(trim(s))
    ELSE NaN

\* String.prototype.split(':')
splitColon(s) ==
    LET at == SelectSeq([j \in 1..Len(s) |-> j], LAMBDA j : s[j] = ":")
        from(k) == IF k = 1 THEN 1 ELSE at[k - 1] + 1
        to(k) == IF k = Len(at) + 1 THEN Len(s) ELSE at[k] - 1
    IN  [k \in 1..(Len(at) + 1) |-> SubSeq(s, from(k), to(k))]

\* hours * 3600 + minutes * 60 + seconds on the numbers of the first three
\* fields; a field that is missing is undefined and its number NaN
timestampToSeconds_fields(f) ==
    IF Len(f) < 3 \/ Number(f[1]) = NaN \/ Number(f[2]) = NaN \/ Number(f[3]) = NaN
    THEN NaN
    ELSE Number(f[1]) * 3600 + Number(f[2]) * 60 + Number(f[3])

timestampToSeconds(timestamp) == timestampToSeconds_fields(splitColon(timestamp))

\* seconds > maxSeconds and prevTime > currTime: false when either is NaN
GreaterThan(a, b) == a # NaN /\ b # NaN /\ a > b

\* maxSeconds after the first k entries of the loop of calculateDuration
RECURSIVE maxSecondsAfter(_, _)
maxSecondsAfter(entries, k) ==
    IF k = 0 THEN 0
    ELSE IF GreaterThan(timestampToSeconds(entries[k].timestamp),
                        maxSecondsAfter(entries, k - 1))
         THEN timestampToSeconds(entries[k].timestamp)
         ELSE maxSecondsAfter(entries, k - 1)

\* A returned string, and a returned null
StringValue(v) == [kind |-> "return", isNull |-> FALSE, value |-> v]
NullValue == [kind |-> "return", isNull |-> TRUE, value |-> <<>>]

\* calculateDuration with the timestamp of the last entry for the maximum
calculateDuration_last(entries) ==
    IF Len(entries) = 0 THEN NullValue
    ELSE StringValue(secondsToTimestamp(timestampToSeconds(entries[Len(entries)].timestamp)))

\* The calls inside the try block throw nothing on entries whose timestamp is
\* a string, so the catch branch is never taken.
calculateDuration(entries) ==
    IF Len(entries) = 0 THEN NullValue
    ELSE StringValue(secondsToTimestamp(maxSecondsAfter(entries, Len(entries))))

(***************************************************************************)
(* Validation of entries (src/lib/validation.ts)                           *)
(***************************************************************************)
\* VALIDATION_PATTERNS.TIMESTAMP.test: /^([0-1]?[0-9]|2[0-3]):[0-5][0-9]:[0-5][0-9]$/
VALIDATION_PATTERNS_TIMESTAMP(s) ==
    LET MinSec(p) == /\ s[p] = ":"
                     /\ s[p + 1] \in {"0", "1", "2", "3", "4", "5"}
                     /\ IsDigit(s[p + 2])
    IN  \/ /\ Len(s) = 8
           /\ \/ s[1] \in {"0", "1"} /\ IsDigit(s[2])
              \/ s[1] = "2" /\ s[2] \in {"0", "1", "2", "3"}
           /\ MinSec(3) /\ MinSec(6)
        \/ /\ Len(s) = 7
           /\ IsDigit(s[1])
           /\ MinSec(2) /\ MinSec(5)

\* \w and [a-zA-Z0-9_]
IsWord(c) == c \in Range(LowerSeq) \cup Range(UpperSeq) \cup Range(DigitSeq) \cup {"_"}

\* VALIDATION_PATTERNS.SECTION_NAME.test: /^[a-zA-Z0-9_]+$/
VALIDATION_PATTERNS_SECTION_NAME(s) ==
    Len(s) > 0 /\ \A i \in 1..Len(s) : IsWord(s[i])

validateTimestamp(timestamp) == VALIDATION_PATTERNS_TIMESTAMP(timestamp)

validateSectionName(sectionName) ==
    VALIDATION_PATTERNS_SECTION_NAME(sectionName) /\ Len(sectionName) > 0

\* A message a validator pushes: the text of its template, the strings put
\* into the template, and the number after "Line " in front (0 for no prefix)
Message(line, msg, args) == [line |-> line, msg |-> msg, args |-> args]

\* `Line ${index + 1}: ${message}` for every message of a list
WithLine(line, messages) ==
    [k \in 1..Len(messages) |-> Message(line, messages[k].msg, messages[k].args)]

\* The result with isValid asking for no warnings as well
ValidationResult_warningsCount(errors, warnings) ==
    [isValid |-> Len(errors) = 0 /\ Len(warnings) = 0, errors |-> errors, warnings |-> warnings]

\* { isValid: errors.length === 0, errors, warnings }
ValidationResult(errors, warnings) ==
    [isValid |-> Len(errors) = 0, errors |-> errors, warnings |-> warnings]

\* The three checks of validateTranscriptEntry that push an error
entryErrors(entry) ==
    (IF ~validateTimestamp(entry.timestamp)
     THEN <<Message(0, "Invalid timestamp format", <<entry.timestamp>>)>> ELSE <<>>)
    \o (IF ~validateSectionName(entry.section)
        THEN <<Message(0, "Invalid section name", <<entry.section>>)>> ELSE <<>>)
    \o (IF entry.content = <<>> \/ Len(trim(entry.content)) = 0
        THEN <<Message(0, "Content cannot be empty.", <<>>)>> ELSE <<>>)

\* The warning check without its guard on the empty string
entryWarnings_emptyWarned(entry) ==
    IF Len(trim(entry.content)) < 10
    THEN <<Message(0, "Very short content in section", <<entry.section, entry.content>>)>>
    ELSE <<>>

\* The check of validateTranscriptEntry that pushes a warning:
\* entry.content && entry.content.trim().length < 10
entryWarnings(entry) ==
    IF entry.content # <<>> /\ Len(trim(entry.content)) < 10
    THEN <<Message(0, "Very short content in section", <<entry.section, entry.content>>)>>
    ELSE <<>>

validateTranscriptEntry(entry) == ValidationResult(entryErrors(entry), entryWarnings(entry))

\* allErrors and allWarnings after the first k entries of the forEach
RECURSIVE allErrorsAfter(_, _)
allErrorsAfter(entries, k) ==
    IF k = 0 THEN <<>>
    ELSE allErrorsAfter(entries, k - 1) \o WithLine(k, validateTranscriptEntry(entries[k]).errors)

RECURSIVE allWarningsAfter(_, _)
allWarningsAfter(entries, k) ==
    IF k = 0 THEN <<>>
    ELSE allWarningsAfter(entries, k - 1)
             \o WithLine(k, validateTranscriptEntry(entries[k]).warnings)

\* Array.prototype.indexOf of a value the array holds
arrayIndexOf(array, v) ==
    CHOOSE i \in 1..Len(array) : array[i] = v /\ \A j \in 1..(i - 1) : array[j] # v

\* timestamps.filter((timestamp, index) => timestamps.indexOf(timestamp) !== index)
duplicateTimestamps(timestamps) ==
    LET at == SelectSeq([i \in 1..Len(timestamps) |-> i],
                        LAMBDA i : arrayIndexOf(timestamps, timestamps[i]) # i)
    IN  [k \in 1..Len(at) |-> timestamps[at[k]]]

\* [...new Set(array)]: the values in the order of their first occurrence
spreadSet(array) ==
    LET at == SelectSeq([i \in 1..Len(array) |-> i],
                        LAMBDA i : arrayIndexOf(array, array[i]) = i)
    IN  [k \in 1..Len(at) |-> array[at[k]]]

\* Array.prototype.join
RECURSIVE join(_, _)
join(array, separator) ==
    IF Len(array) = 0 THEN <<>>
    ELSE IF Len(array) = 1 THEN array[1]
    ELSE join(SubSeq(array, 1, Len(array) - 1), separator) \o separator \o array[Len(array)]

\* The duplicate check with every repeat listed: no Set around the repeats
duplicateWarnings_everyRepeat(timestamps) ==
    IF Len(duplicateTimestamps(timestamps)) > 0
    THEN <<Message(0, "Duplicate timestamps found",
                   <<join(duplicateTimestamps(timestamps), <<",", " ">>)>>)>>
    ELSE <<>>

\* The check for duplicate timestamps
duplicateWarnings(timestamps) ==
    IF Len(duplicateTimestamps(timestamps)) > 0
    THEN <<Message(0, "Duplicate timestamps found",
                   <<join(spreadSet(duplicateTimestamps(timestamps)), <<",", " ">>)>>)>>
    ELSE <<>>

\* hours * 3600 + minutes * 60 + seconds on timeString.split(':').map(Number)
timeToSeconds_fields(f) ==
    IF Len(f) < 3 \/ Number(f[1]) = NaN \/ Number(f[2]) = NaN \/ Number(f[3]) = NaN
    THEN NaN
    ELSE Number(f[1]) * 3600 + Number(f[2]) * 60 + Number(f[3])

timeToSeconds(timeString) == timeToSeconds_fields(splitColon(timeString))

\* The order check with >= for >: equal neighbours flagged as well
chronologicalWarnings_nonStrict(entries) ==
    LET at == SelectSeq([i \in 1..(Len(entries) - 1) |-> i + 1],
                        LAMBDA i : /\ timeToSeconds(entries[i - 1].timestamp) # NaN
                                   /\ timeToSeconds(entries[i].timestamp) # NaN
                                   /\ timeToSeconds(entries[i - 1].timestamp)
                                          >= timeToSeconds(entries[i].timestamp))
    IN  [k \in 1..Len(at) |->
            Message(0, "Timestamps not in chronological order",
                    <<entries[at[k] - 1].timestamp, entries[at[k]].timestamp>>)]

\* The check of the chronological order: for (let i = 1; i < entries.length; i++)
chronologicalWarnings(entries) ==
    LET at == SelectSeq([i \in 1..(Len(entries) - 1) |-> i + 1],
                        LAMBDA i : GreaterThan(timeToSeconds(entries[i - 1].timestamp),
                                               timeToSeconds(entries[i].timestamp)))
    IN  [k \in 1..Len(at) |->
            Message(0, "Timestamps not in chronological order",
                    <<entries[at[k] - 1].timestamp, entries[at[k]].timestamp>>)]

timestampsOf(entries) == [i \in 1..Len(entries) |-> entries[i].timestamp]

validateTranscriptEntries(entries) ==
    IF Len(entries) = 0
    THEN [isValid |-> FALSE,
          errors |-> <<Message(0, "Transcript must contain at least one entry.", <<>>)>>,
          warnings |-> <<>>]
    ELSE ValidationResult(allErrorsAfter(entries, Len(entries)),
                          allWarningsAfter(entries, Len(entries))
                              \o duplicateWarnings(timestampsOf(entries))
                              \o chronologicalWarnings(entries))

\* What a validator gives its caller, with the argument it was called on
Validated(arg, result) == [kind |-> "return", arg |-> arg, result |-> result]

(***************************************************************************)
(* Validation of text                                                      *)
(***************************************************************************)
\* A returned boolean, and the TypeError of a call of a method that the
\* value does not have
BooleanValue(b) == [kind |-> "return", value |-> b]
TypeErrorThrown == [kind |-> "throw", name |-> "TypeError"]

\* lines.filter(line => line.trim())
nonBlankLines(lines) == SelectSeq(lines, LAMBDA line : trim(line) # <<>>)

\* The loop of validateFormat asking every line to be of the format
hasValidLine_everyLine(lines) ==
    /\ Len(lines) > 0
    /\ \A k \in 1..Len(lines) :
          /\ TRANSCRIPT_LINE_PATTERN(trim(lines[k])).matched
          /\ isValidTimestamp(TRANSCRIPT_LINE_PATTERN(trim(lines[k])).timestamp)

\* hasValidLine after the loop of validateFormat over the non-blank lines
hasValidLine(lines) ==
    \E k \in 1..Len(lines) :
        /\ TRANSCRIPT_LINE_PATTERN(trim(lines[k])).matched
        /\ isValidTimestamp(TRANSCRIPT_LINE_PATTERN(trim(lines[k])).timestamp)

validateFormat(content) ==
    IF Falsy(content) \/ content.type # "string" THEN BooleanValue(FALSE)
    ELSE BooleanValue(hasValidLine(nonBlankLines(split(trimText(content.text)))))

\* end of the run of \w that starts at p (p - 1 when there is none)
WordRunEnd(s, p) ==
    IF p > Len(s) \/ ~IsWord(s[p]) THEN p - 1
    ELSE CHOOSE i \in p..Len(s) :
             /\ \A j \in p..i : IsWord(s[j])
             /\ (i = Len(s) \/ ~IsWord(s[i + 1]))

\* Length of the match of ([0-1]?[0-9]|2[0-3]):[0-5][0-9]:[0-5][0-9] that
\* starts at p; 0 when none.  The place of the first colon tells the
\* two-digit hour from the one-digit hour.
ValidTimestampAt(s, p) ==
    IF p + 7 <= Len(s) /\ VALIDATION_PATTERNS_TIMESTAMP(SubSeq(s, p, p + 7)) THEN 8
    ELSE IF p >= 1 /\ p + 6 <= Len(s) /\ VALIDATION_PATTERNS_TIMESTAMP(SubSeq(s, p, p + 6))
         THEN 7
    ELSE 0

\* VALIDATION_PATTERNS.TRANSCRIPT_LINE.test:
\* /^-\s+([0-1]?[0-9]|2[0-3]):[0-5][0-9]:[0-5][0-9]\s+(\w+)\s+(.+)$/
\* As in the pattern of the parser each class excludes the first character of
\* what follows it, and only the last \s+ gives a character back.
VALIDATION_PATTERNS_TRANSCRIPT_LINE(line) ==
    /\ Len(line) >= 2
    /\ line[1] = "-"
    /\ LET ws1 == SpaceRunEnd(line, 2)
           tl  == ValidTimestampAt(line, ws1 + 1)
           ts  == ws1 + tl
           ws2 == SpaceRunEnd(line, ts + 1)
           tok == WordRunEnd(line, ws2 + 1)
           e   == SpaceRunEnd(line, tok + 1)
           ws3 == IF e = Len(line) THEN e - 1 ELSE e
       IN  /\ ws1 >= 2
           /\ tl > 0
           /\ ws2 > ts
           /\ tok > ws2
           /\ ws3 > tok
           /\ \A i \in (ws3 + 1)..Len(line) : IsDot(line[i])

\* The errors of the forEach of validateTranscriptFormat over the non-blank
\* lines, numbered as the filter left them
formatErrors(lines) ==
    LET at == SelectSeq([k \in 1..Len(lines) |-> k],
                        LAMBDA k : ~VALIDATION_PATTERNS_TRANSCRIPT_LINE(trim(lines[k])))
    IN  [j \in 1..Len(at) |-> Message(at[j], "Invalid format", <<trim(lines[at[j]])>>)]

validateTranscriptFormat_lines(lines) ==
    IF Len(lines) = 0
    THEN [isValid |-> FALSE,
          errors |-> <<Message(0, "Transcript must contain at least one valid line.", <<>>)>>,
          warnings |-> <<>>]
    ELSE ValidationResult(formatErrors(lines), <<>>)

\* content.trim() on a value that is neither falsy nor a string throws the
\* TypeError of calling undefined.
validateTranscriptFormat(content) ==
    IF Falsy(content)
    THEN Validated(content, [isValid |-> FALSE,
                             errors |-> <<Message(0, "Transcript content cannot be empty.", <<>>)>>,
                             warnings |-> <<>>])
    ELSE IF content.type # "string" THEN TypeErrorThrown
    ELSE IF trimText(content.text) = << <<>> >>
    THEN Validated(content, [isValid |-> FALSE,
                             errors |-> <<Message(0, "Transcript content cannot be empty.", <<>>)>>,
                             warnings |-> <<>>])
    ELSE Validated(content, validateTranscriptFormat_lines(nonBlankLines(split(content.text))))

(***************************************************************************)
(* Statistics of entries                                                   *)
(***************************************************************************)
\* String.prototype.split(/\s+/): the pieces between the runs of white space,
\* with an empty piece ahead of a leading run and behind a trailing one
splitSpaceRuns(s) ==
    IF s = <<>> THEN << <<>> >>
    ELSE LET starts == SelectSeq([i \in 1..Len(s) |-> i],
                                 LAMBDA i : ~IsSpace(s[i]) /\ (i = 1 \/ IsSpace(s[i - 1])))
         IN  (IF IsSpace(s[1]) THEN << <<>> >> ELSE <<>>)
                 \o [k \in 1..Len(starts) |-> SubSeq(s, starts[k], TokenRunEnd(s, starts[k]))]
                 \o (IF IsSpace(s[Len(s)]) THEN << <<>> >> ELSE <<>>)

\* The words of an entry with the empty pieces counted among them
wordsOf_unfiltered(entry) == splitSpaceRuns(trim(entry.content))

\* entry.content.trim().split(/\s+/).filter(word => word.length > 0)
wordsOf(entry) == SelectSeq(splitSpaceRuns(trim(entry.content)), LAMBDA word : Len(word) > 0)

\* total after the first k entries of the reduce of countWords
RECURSIVE countWordsAfter(_, _)
countWordsAfter(entries, k) ==
    IF k = 0 THEN 0 ELSE countWordsAfter(entries, k - 1) + Len(wordsOf(entries[k]))

NumberValue(n) == [kind |-> "return", value |-> n]

countWords(entries) == NumberValue(countWordsAfter(entries, Len(entries)))

\* String.prototype.charCodeAt for the characters of the model
charCodeAt(c) ==
    IF c = "\t" THEN 9
    ELSE IF c = "\n" THEN 10
    ELSE IF c = "\r" THEN 13
    ELSE IF c = " " THEN 32
    ELSE IF c = "-" THEN 45
    ELSE IF c = ":" THEN 58
    ELSE IF c = "_" THEN 95
    ELSE IF IsDigit(c) THEN 48 + DigitVal(c)
    ELSE IF IsUpper(c) THEN 64 + (CHOOSE i \in 1..26 : UpperSeq[i] = c)
    ELSE 96 + (CHOOSE i \in 1..26 : LowerSeq[i] = c)

\* a < b in the order of Array.prototype.sort without a comparator: by the
\* code units of the strings, a proper prefix ahead of its extensions
sortsBefore(a, b) ==
    \E p \in 1..(Len(a) + 1) :
        /\ p <= Len(b)
        /\ \A j \in 1..(p - 1) : a[j] = b[j]
        /\ p = Len(a) + 1 \/ charCodeAt(a[p]) < charCodeAt(b[p])

\* The sections left in the order the set holds them
sort_none(array) == array

\* Array.prototype.sort on strings that differ from one another
sort(array) ==
    [k \in 1..Len(array) |->
        array[CHOOSE i \in 1..Len(array) :
                  Cardinality({j \in 1..Len(array) : sortsBefore(array[j], array[i])}) = k - 1]]

sectionsOf(entries) == [i \in 1..Len(entries) |-> entries[i].section]

ArrayValue(a) == [kind |-> "return", value |-> a]

\* The Set holds each section once, in the order of the first add
getUniqueSections(entries) == ArrayValue(sort(spreadSet(sectionsOf(entries))))

(***************************************************************************)
(* Inputs                                                                  *)
(***************************************************************************)
LnBlank == <<>>
LnAgenda == <<"-", " ", "0", "0", ":", "0", "1", ":", "3", "0", " ", "a", "g", "e", "n", "d", "a", " ", "P", "l", "a", "n">>
LnIntro == <<"-", " ", "0", "0", ":", "0", "0", ":", "0", "5", " ", "i", "n", "t", "r", "o", " ", "H", "i">>
LnHour25 == <<"-", " ", "2", "5", ":", "0", "0", ":", "0", "0", " ", "i", "n", "t", "r", "o", " ", "H", "e", "l", "l", "o", " ", "a", "l", "l">>
LnGenerated == <<"g", "e", "n", "e", "r", "a", "t", "e", "d", ":", " ", "x">>
LnShort == <<"a", "b", "c">>
LnPadded == <<" ", " ", "-", " ", " ", " ", "0", "0", ":", "0", "0", ":", "0", "0", " ", " ", " ", "i", "n", "t", "r", "o", "d", "u", "c", "t", "i", "o", "n", " ", " ", " ", "W", "e", "l", "c", "o", "m", "e", " ", "a", "l", "l", " ", " ">>
LnUpperSection == <<"-", " ", "0", "0", ":", "0", "0", ":", "0", "1", " ", "I", "n", "t", "r", "o", " ", "H", "e", "l", "l", "o">>
LnNoContent == <<"-", " ", "0", "0", ":", "0", "0", ":", "0", "1", " ", "i", "n", "t", "r", "o">>
LnOneDigitHour == <<"-", " ", "5", ":", "0", "0", ":", "0", "0", " ", "a", " ", "b">>
LnMinute60 == <<"-", " ", "0", "0", ":", "6", "0", ":", "0", "0", " ", "a", " ", "b">>
LnHour105 == <<"-", " ", "1", "0", "5", ":", "3", "0", ":", "0", "0", " ", "a", " ", "b">>
LnBracket == <<"[", "0", "0", ":", "0", "0", ":", "0", "5", "]", " ", "B", "o", "b", " ", "L", "e", "e", ":", " ", "H", "e", "l", "l", "o">>
LnBracket25 == <<"[", "2", "5", ":", "0", "0", ":", "0", "0", "]", " ", "B", "o", "b", ":", " ", "H", "e", "l", "l", "o">>
LnBracketNoSpeaker == <<"[", "0", "0", ":", "0", "0", ":", "0", "5", "]", " ", " ", ":", " ", "H", "e", "l", "l", "o">>
LnNoBracket == <<"0", "0", ":", "0", "0", ":", "0", "7", " ", "B", "o", "b", ":", " ", "H", "e", "l", "l", "o">>
LnSpeakerFirst == <<"B", "o", "b", ":", " ", "[", "0", "0", ":", "0", "0", ":", "0", "9", "]", " ", "H", "e", "l", "l", "o">>
LnDashSpaced == <<"0", "0", ":", "0", "0", ":", "1", "1", " ", "-", " ", "B", "o", "b", ":", " ", "H", "e", "l", "l", "o">>
LnDashTight == <<"0", "0", ":", "0", "0", ":", "1", "3", "-", " ", "B", "o", "b", ":", " ", "H", "e", "l", "l", "o">>
LnEmbedded == <<"a", "t", " ", "0", "0", ":", "0", "0", ":", "1", "5", " ", "h", "e", "l", "l", "o", " ", "w", "o", "r", "l", "d">>
LnEmbeddedShort == <<"a", "t", " ", "0", "0", ":", "0", "0", ":", "1", "5", " ", "h", "e", "l", "l", "o", "w", "o", "r", "l", "d">>
LnEmbedded105 == <<"1", "0", "5", ":", "3", "0", ":", "0", "0", " ", "h", "e", "l", "l", "o", " ", "w", "o", "r", "l", "d">>
LnPlain == <<"H", "e", "l", "l", "o", " ", "t", "h", "e", "r", "e", " ", "m", "y", " ", "f", "r", "i", "e", "n", "d", "s">>
LnPlain20 == <<"H", "e", "l", "l", "o", " ", "t", "h", "e", "r", "e", " ", "f", "r", "i", "e", "n", "d", "s", "!">>
LnPlainLower == <<"h", "e", "l", "l", "o", " ", "t", "h", "e", "r", "e", " ", "m", "y", " ", "f", "r", "i", "e", "n", "d", "s">>
LnListMarker == <<"1", "2", "3", "4", ".">>
LnDigits5 == <<"1", "2", "3", "4", "5">>
LnTranscriptWord == <<"[", "0", "0", ":", "0", "0", ":", "0", "5", "]", " ", "B", "o", "b", ":", " ", "T", "r", "a", "n", "S", "c", "r", "i", "p", "t">>
LnLen4 == <<"a", ":", "b", "c">>
LnLen5 == <<"a", ":", "b", "c", "d">>
LnSpaces == <<" ", " ">>
LnMixedSection == <<"-", " ", "0", "0", ":", "0", "0", ":", "0", "2", " ", "i", "n", "T", "r", "o", "_", "9", " ", "H", "e", "l", "l", "o">>
LnUpperHour25 == <<"-", " ", "2", "5", ":", "0", "0", ":", "0", "0", " ", "I", "n", "t", "r", "o", " ", "H", "e", "l", "l", "o">>
LnDashSection == <<"-", " ", "0", "0", ":", "0", "0", ":", "0", "5", " ", "m", "y", "-", "s", "e", "c", "t", "i", "o", "n", " ", "H", "e", "l", "l", "o">>
CorePool == {LnBlank, LnAgenda, LnIntro, LnHour25, LnGenerated, LnShort, LnUpperSection}
FullPool == CorePool \cup {LnPadded, LnUpperSection, LnNoContent, LnOneDigitHour, LnMinute60, LnHour105, LnBracket, LnBracket25, LnBracketNoSpeaker, LnNoBracket, LnSpeakerFirst, LnDashSpaced, LnDashTight, LnEmbedded, LnEmbeddedShort, LnEmbedded105, LnPlain, LnPlain20, LnPlainLower, LnListMarker, LnDigits5, LnTranscriptWord, LnLen4, LnLen5, LnSpaces,
                           LnMixedSection, LnUpperHour25}

\* A line the cascade turns into an entry, a line it rejects and the fallback
\* pass takes, and a blank line: the lines that decide the error threshold
ThresholdPool == {LnBlank, LnAgenda, LnHour25}

\* Longest text over CorePool, over ThresholdPool and over FullPool
MaxLines == 3
MaxThreshold == 5
MaxShort == 1
\* Lines of the long text: three lines no grammar matches, then a blank one,
\* repeated; enough of them for the fallback pass to run a full day of seconds.
LongLines == 14401
\* Longest text over CorePool beside the long text
MaxBeside == 2

LongText == [i \in 1..LongLines |-> IF i % 4 = 0 THEN LnBlank ELSE LnLen5]

TextsOver(pool, n) == UNION {[1..k -> pool] : k \in 1..n}

StringInput(text) == [type |-> "string", text |-> text, num |-> 0]

NonStringInputs ==
    {[type |-> "null", text |-> << <<>> >>, num |-> 0],
     [type |-> "undefined", text |-> << <<>> >>, num |-> 0],
     [type |-> "number", text |-> << <<>> >>, num |-> 123],
     [type |-> "number", text |-> << <<>> >>, num |-> 0]}

\* Every text of up to MaxLines lines over CorePool, of up to MaxThreshold
\* lines over ThresholdPool and of up to MaxShort lines over FullPool, and the
\* arguments that are no strings
Inputs ==
    {StringInput(t) : t \in TextsOver(CorePool, MaxLines)
                            \cup TextsOver(ThresholdPool, MaxThreshold)
                            \cup TextsOver(FullPool, MaxShort)}
        \cup NonStringInputs

\* The long text, beside the short texts over CorePool
LongInputs ==
    {StringInput(LongText)} \cup {StringInput(t) : t \in TextsOver(CorePool, MaxBeside)}

(***************************************************************************)
(* State machine: one caller, one call                                     *)
(***************************************************************************)
Init ==
    /\ input \in Inputs
    /\ pc = "ready"
    /\ call = "none"
    /\ outcome = NoOutcome

InitLong ==
    /\ input \in LongInputs
    /\ pc = "ready"
    /\ call = "none"
    /\ outcome = NoOutcome

CallParseTranscript ==
    /\ pc = "ready"
    /\ call' = "parseTranscript"
    /\ outcome' = parseTranscript(input)
    /\ pc' = "done"
    /\ UNCHANGED input

CallParseTranscriptFromText ==
    /\ pc = "ready"
    /\ call' = "parseTranscriptFromText"
    /\ outcome' = parseTranscriptFromText(input)
    /\ pc' = "done"
    /\ UNCHANGED input

Next ==
    \/ CallParseTranscript
    \/ CallParseTranscriptFromText

Spec == Init /\ [][Next]_vars

\* The same machine started on the long text
SpecLong == InitLong /\ [][Next]_vars

(***************************************************************************)
(* Timestamp strings and the calls on them                                 *)
(***************************************************************************)
HourParts ==
    {<<>>, <<"0">>, <<"5">>, <<"9">>, <<"0", "0">>, <<"0", "9">>, <<"1", "9">>,
     <<"2", "0">>, <<"2", "3">>, <<"2", "4">>, <<"2", "9">>, <<"3", "0">>,
     <<"1", "2", "3">>, <<"a">>}
MinuteParts ==
    {<<"0", "0">>, <<"0", "7">>, <<"5", "9">>, <<"6", "0">>, <<"5">>, <<"0", "5", "9">>,
     <<"0", "a">>, <<>>}
PadParts == {<<>>, <<" ">>, <<"\t", "\n">>}
Colons == {<<":">>, <<".">>, <<>>}

\* hour, minute and second parts with colons between and whitespace around,
\* and strings with a colon replaced or with a field too few or too many
TimestampStrings ==
    {a \o h \o <<":">> \o m \o <<":">> \o x \o b :
        a \in PadParts, b \in PadParts, h \in HourParts, m \in MinuteParts,
        x \in {<<"0", "0">>, <<"5", "9">>, <<"6", "0">>}}
    \cup {h \o c \o <<"3", "0">> \o d \o <<"0", "0">> \o e :
            h \in {<<"5">>, <<"1", "2">>}, c \in Colons, d \in Colons,
            e \in {<<>>, <<":", "0", "0">>, <<"a">>, <<" ", "x">>}}

\* The argument of isValidTimestamp and timestampToSeconds is a string, kept
\* as the sequence of its characters.
InitTime ==
    /\ input \in TimestampStrings
    /\ pc = "ready"
    /\ call = "none"
    /\ outcome = NoOutcome

CallIsValidTimestamp ==
    /\ pc = "ready"
    /\ call' = "isValidTimestamp"
    /\ outcome' = [kind |-> "return", value |-> isValidTimestamp(input)]
    /\ pc' = "done"
    /\ UNCHANGED input

\* secondsToTimestamp(timestampToSeconds(timestamp)), as calculateDuration
\* composes the two
CallTimestampRoundTrip ==
    /\ pc = "ready"
    /\ call' = "secondsToTimestamp"
    /\ outcome' = [kind |-> "return", value |-> secondsToTimestamp(timestampToSeconds(input))]
    /\ pc' = "done"
    /\ UNCHANGED input

NextTime ==
    \/ CallIsValidTimestamp
    \/ CallTimestampRoundTrip

SpecTime == InitTime /\ [][NextTime]_vars

(***************************************************************************)
(* Lists of entries and the calls on them                                  *)
(***************************************************************************)
EnIntro == Entry(<<"0", "0", ":", "0", "0", ":", "0", "5">>, <<"i", "n", "t", "r", "o">>, <<"H", "e", "l", "l", "o", " ", "w", "o", "r", "l", "d">>)
EnAgenda == Entry(<<"0", "0", ":", "0", "1", ":", "3", "0">>, <<"a", "g", "e", "n", "d", "a">>, <<"H", "e", "l", "l", "o", " ", "w", "o", "r", "l", "d">>)
EnShortHour == Entry(<<"5", ":", "0", "0", ":", "0", "0">>, <<"i", "n", "t", "r", "o">>, <<"H", "i">>)
EnLongHour == Entry(<<"0", "5", ":", "0", "0", ":", "0", "0">>, <<"i", "n", "t", "r", "o">>, <<"H", "e", "l", "l", "o", " ", "w", "o", "r", "l", "d">>)
EnHour25 == Entry(<<"2", "5", ":", "0", "0", ":", "0", "0">>, <<"i", "n", "t", "r", "o">>, <<"H", "e", "l", "l", "o", " ", "w", "o", "r", "l", "d">>)
EnBadSection == Entry(<<"0", "0", ":", "0", "1", ":", "3", "0">>, <<"m", "y", "-", "s", "e", "c">>, <<>>)
EnNoNumber == Entry(<<"a", "b">>, <<"i", "n", "t", "r", "o">>, <<" ", " ", " ">>)
EntryPool == {EnIntro, EnAgenda, EnShortHour, EnLongHour, EnHour25, EnBadSection, EnNoNumber}

TimestampPool ==
    {<<"0", "0", ":", "0", "0", ":", "0", "5">>, <<"5", ":", "0", "0", ":", "0", "0">>, <<"2", "3", ":", "5", "9", ":", "5", "9">>, <<"2", "4", ":", "0", "0", ":", "0", "0">>, <<" ", "0", "0", ":", "0", "0", ":", "0", "5">>, <<"0", "0", ":", "0", "0", ":", "0", "5", "\n">>, <<"0", ":", "0", ":", "5">>, <<>>}
SectionPool ==
    {<<"i", "n", "t", "r", "o">>, <<"S", "e", "c", "_", "9">>, <<"m", "y", "-", "s", "e", "c">>, <<"t", "w", "o", " ", "w", "o", "r", "d", "s">>, <<>>, <<" ", "i", "n", "t", "r", "o">>}
ContentPool ==
    {<<>>, <<" ", " ", " ">>, <<"H", "i">>, <<"a", "b", "c", "d", "e", "f", "g", "h", "i">>, <<"a", "b", "c", "d", "e", "f", "g", "h", "i", "j">>, <<"a", "b", "c", "d", "e", "f", "g", "h", "i", " ">>, <<" ", " ", "a", "b", "c", "d", "e", "f", "g", "h", "i", "j", " ", " ">>, <<"H", "e", "l", "l", "o", " ", "w", "o", "r", "l", "d">>}

\* Longest list over EntryPool
MaxEntries == 4

\* Every list of up to MaxEntries entries over EntryPool, the empty list
\* among them, and every list of one entry with its fields from the pools
EntryLists ==
    {<<>>} \cup TextsOver(EntryPool, MaxEntries)
        \cup {<<Entry(t, n, c)>> : t \in TimestampPool, n \in SectionPool, c \in ContentPool}

InitEntries ==
    /\ input \in EntryLists
    /\ pc = "ready"
    /\ call = "none"
    /\ outcome = NoOutcome

CallCalculateDuration ==
    /\ pc = "ready"
    /\ call' = "calculateDuration"
    /\ outcome' = calculateDuration(input)
    /\ pc' = "done"
    /\ UNCHANGED input

CallValidateTranscriptEntries ==
    /\ pc = "ready"
    /\ call' = "validateTranscriptEntries"
    /\ outcome' = Validated(input, validateTranscriptEntries(input))
    /\ pc' = "done"
    /\ UNCHANGED input

\* validateTranscriptEntry on one of the entries of the list
CallValidateTranscriptEntry ==
    /\ pc = "ready"
    /\ \E i \in 1..Len(input) :
           outcome' = Validated(input[i], validateTranscriptEntry(input[i]))
    /\ call' = "validateTranscriptEntry"
    /\ pc' = "done"
    /\ UNCHANGED input

NextEntries ==
    \/ CallCalculateDuration
    \/ CallValidateTranscriptEntries
    \/ CallValidateTranscriptEntry

SpecEntries == InitEntries /\ [][NextEntries]_vars

(***************************************************************************)
(* Texts and the validators of their format                                *)
(***************************************************************************)
\* Lines of the line format, lines outside it and blank lines
FormatPool == {LnBlank, LnAgenda, LnIntro, LnHour25, LnShort, LnDashSection, LnPadded, LnSpaces}

FormatInputs ==
    {StringInput(t) : t \in TextsOver(FormatPool, MaxLines) \cup TextsOver(FullPool, MaxShort)}
        \cup NonStringInputs

InitFormat ==
    /\ input \in FormatInputs
    /\ pc = "ready"
    /\ call = "none"
    /\ outcome = NoOutcome

CallValidateFormat ==
    /\ pc = "ready"
    /\ call' = "validateFormat"
    /\ outcome' = validateFormat(input)
    /\ pc' = "done"
    /\ UNCHANGED input

CallValidateTranscriptFormat ==
    /\ pc = "ready"
    /\ call' = "validateTranscriptFormat"
    /\ outcome' = validateTranscriptFormat(input)
    /\ pc' = "done"
    /\ UNCHANGED input

NextFormat ==
    \/ CallValidateFormat
    \/ CallValidateTranscriptFormat

SpecFormat == InitFormat /\ [][NextFormat]_vars

(***************************************************************************)
(* Lists of entries and the statistics of them                             *)
(***************************************************************************)
EnUpper == Entry(<<"0", "0", ":", "0", "0", ":", "0", "9">>, <<"I", "n", "t", "r", "o">>, <<"a", " ", " ", "b", "\t", "c">>)
EnPrefix == Entry(<<"0", "0", ":", "0", "0", ":", "0", "1">>, <<"i", "n">>, <<" ", "o", "n", "e", " ", " ", "t", "w", "o", " ">>)
StatsPool == {EnIntro, EnAgenda, EnBadSection, EnNoNumber, EnUpper, EnPrefix}

StatsLists ==
    {<<>>} \cup TextsOver(StatsPool, MaxEntries)
        \cup {<<Entry(t, n, c)>> : t \in TimestampPool, n \in SectionPool, c \in ContentPool}

InitStats ==
    /\ input \in StatsLists
    /\ pc = "ready"
    /\ call = "none"
    /\ outcome = NoOutcome

CallCountWords ==
    /\ pc = "ready"
    /\ call' = "countWords"
    /\ outcome' = countWords(input)
    /\ pc' = "done"
    /\ UNCHANGED input

CallGetUniqueSections ==
    /\ pc = "ready"
    /\ call' = "getUniqueSections"
    /\ outcome' = getUniqueSections(input)
    /\ pc' = "done"
    /\ UNCHANGED input

NextStats ==
    \/ CallCountWords
    \/ CallGetUniqueSections

SpecStats == InitStats /\ [][NextStats]_vars

(***************************************************************************)
(* Two callers of the one program                                          *)
(***************************************************************************)
\* The state the calls of every caller share: the RegExp objects held in the
\* static fields of TranscriptParser and in VALIDATION_PATTERNS, each with its
\* lastIndex.  No other value outlives a call.
StaticPatterns ==
    {"TIMESTAMP_PATTERN", "TRANSCRIPT_LINE_PATTERN",
     "VALIDATION_PATTERNS.TIMESTAMP", "VALIDATION_PATTERNS.SECTION_NAME"}

ZeroLastIndex == [p \in StaticPatterns |-> 0]

\* The flags of the static patterns had they been written with /g
staticFlags_global(pattern) == {"g"}

\* The flags of the static patterns: their literals carry none
staticFlags(pattern) == {}

\* RegExpBuiltinExec of a pattern anchored by ^ and $ on a string of n
\* characters that the pattern matches (m) or does not match from index 0.
\* With g or y the match starts at lastIndex, where ^ holds only at 0, and
\* lastIndex is written: the end of the match, or 0 when there is none.
regExpExec(flags, lastIndex, m, n) ==
    IF "g" \in flags \/ "y" \in flags
    THEN IF lastIndex = 0 /\ m THEN [matched |-> TRUE, lastIndex |-> n]
         ELSE [matched |-> FALSE, lastIndex |-> 0]
    ELSE [matched |-> m, lastIndex |-> lastIndex]

\* What a call leaves: its result and the lastIndex of the static patterns
Left(result, lastIndex) == [result |-> result, lastIndex |-> lastIndex]

\* TIMESTAMP_PATTERN.test(timestamp.trim()) on the shared pattern
isValidTimestamp_shared(timestamp, li) ==
    LET e == regExpExec(staticFlags("TIMESTAMP_PATTERN"), li["TIMESTAMP_PATTERN"],
                        TIMESTAMP_PATTERN(trim(timestamp)), Len(trim(timestamp)))
    IN  Left(e.matched, [li EXCEPT !["TIMESTAMP_PATTERN"] = e.lastIndex])

\* parseLine on the shared patterns: the exec of the line pattern, then, on a
\* match, the test of the timestamp pattern and the other checks
parseLine_shared(line, li) ==
    LET m == TRANSCRIPT_LINE_PATTERN(line)
        e == regExpExec(staticFlags("TRANSCRIPT_LINE_PATTERN"), li["TRANSCRIPT_LINE_PATTERN"],
                        m.matched, Len(line))
        after == [li EXCEPT !["TRANSCRIPT_LINE_PATTERN"] = e.lastIndex]
    IN  IF ~e.matched THEN Left(Failed("Invalid line format"), after)
        ELSE LET t == isValidTimestamp_shared(m.timestamp, after)
             IN  Left(IF ~t.result THEN Failed("Invalid timestamp format")
                      ELSE parseLine_checks(m),
                      t.lastIndex)

\* The scan loop of parseTranscript after its first k lines
RECURSIVE StrictScan_shared(_, _, _)
StrictScan_shared(lines, k, li) ==
    IF k = 0 THEN Left(<<>>, li)
    ELSE LET before == StrictScan_shared(lines, k - 1, li)
         IN  IF Len(trim(lines[k])) = 0
             THEN Left(Append(before.result, Skipped), before.lastIndex)
             ELSE LET r == parseLine_shared(trim(lines[k]), before.lastIndex)
                  IN  Left(Append(before.result, r.result), r.lastIndex)

parseTranscript_shared(content, li) ==
    IF Falsy(content) \/ content.type # "string"
    THEN Left(Thrown(INVALID_FILE_FORMAT, "Invalid input", <<>>, 0), li)
    ELSE LET scan == StrictScan_shared(split(trimText(content.text)),
                                       Len(split(trimText(content.text))), li)
         IN  Left(parseTranscript_scanned(scan.result), scan.lastIndex)

\* validateTranscriptEntry on the shared patterns of VALIDATION_PATTERNS
validateTranscriptEntry_shared(entry, li) ==
    LET t == regExpExec(staticFlags("VALIDATION_PATTERNS.TIMESTAMP"),
                        li["VALIDATION_PATTERNS.TIMESTAMP"],
                        VALIDATION_PATTERNS_TIMESTAMP(entry.timestamp), Len(entry.timestamp))
        s == regExpExec(staticFlags("VALIDATION_PATTERNS.SECTION_NAME"),
                        li["VALIDATION_PATTERNS.SECTION_NAME"],
                        VALIDATION_PATTERNS_SECTION_NAME(entry.section), Len(entry.section))
        errors ==
            (IF ~t.matched
             THEN <<Message(0, "Invalid timestamp format", <<entry.timestamp>>)>> ELSE <<>>)
            \o (IF ~(s.matched /\ Len(entry.section) > 0)
                THEN <<Message(0, "Invalid section name", <<entry.section>>)>> ELSE <<>>)
            \o (IF entry.content = <<>> \/ Len(trim(entry.content)) = 0
                THEN <<Message(0, "Content cannot be empty.", <<>>)>> ELSE <<>>)
    IN  Left(Validated(entry, ValidationResult(errors, entryWarnings(entry))),
             [li EXCEPT !["VALIDATION_PATTERNS.TIMESTAMP"] = t.lastIndex,
                        !["VALIDATION_PATTERNS.SECTION_NAME"] = s.lastIndex])

\* One call of an operation with the static patterns as the call before left
\* them; getUniqueSections uses none of them
Invoke(op, arg, li) ==
    IF op = "parseTranscript" THEN parseTranscript_shared(arg.content, li)
    ELSE IF op = "isValidTimestamp"
    THEN Left(BooleanValue(isValidTimestamp_shared(arg.timestamp, li).result),
              isValidTimestamp_shared(arg.timestamp, li).lastIndex)
    ELSE IF op = "validateTranscriptEntry" THEN validateTranscriptEntry_shared(arg.entry, li)
    ELSE Left(getUniqueSections(arg.entries), li)

\* The argument object after the call: no operation assigns to its argument
\* or to a part of it (getUniqueSections sorts the array it made from its Set)
argumentAfter(op, arg) == arg

Callers == {1, 2}

\* Calls of one caller, and the longest text a caller parses
MaxCalls == 2
MaxCallerLines == 2

CallerPool == {LnAgenda, LnHour25, LnShort}

\* The argument of a call: the text, timestamp, entry or list of entries the
\* operation takes, the other fields left empty
Argument(content, timestamp, entry, entries) ==
    [content |-> content, timestamp |-> timestamp, entry |-> entry, entries |-> entries]

CallOf(op, arg) == [op |-> op, given |-> arg, arg |-> arg]

\* What a caller calls, on what
CallerCalls ==
    {CallOf("parseTranscript", Argument(StringInput(t), <<>>, NoEntry, <<>>)) :
        t \in TextsOver(CallerPool, MaxCallerLines)}
    \cup {CallOf("isValidTimestamp", Argument(StringInput(<< <<>> >>), t, NoEntry, <<>>)) :
            t \in {EnIntro.timestamp, EnHour25.timestamp, EnNoNumber.timestamp}}
    \cup {CallOf("validateTranscriptEntry", Argument(StringInput(<< <<>> >>), <<>>, e, <<>>)) :
            e \in {EnIntro, EnBadSection, EnHour25}}
    \cup {CallOf("getUniqueSections", Argument(StringInput(<< <<>> >>), <<>>, NoEntry, l)) :
            l \in {<<>>, <<EnIntro, EnAgenda, EnIntro>>}}

\* input: the call of each caller; pc: the calls each caller has made;
\* call: the callers in the order of their calls, and the lastIndex of the
\* static patterns; outcome: the results each caller got, in order
InitCallers ==
    /\ input \in [Callers -> CallerCalls]
    /\ pc = [c \in Callers |-> 0]
    /\ call = [order |-> <<>>, lastIndex |-> ZeroLastIndex]
    /\ outcome = [c \in Callers |-> <<>>]

\* Caller c makes its call; the call runs to its end before any other starts
\* (every operation is synchronous)
CallerInvokes(c) ==
    /\ pc[c] < MaxCalls
    /\ pc' = [pc EXCEPT ![c] = @ + 1]
    /\ outcome' = [outcome EXCEPT
                      ![c] = Append(@, Invoke(input[c].op, input[c].arg, call.lastIndex).result)]
    /\ call' = [order |-> Append(call.order, c),
                lastIndex |-> Invoke(input[c].op, input[c].arg, call.lastIndex).lastIndex]
    /\ input' = [input EXCEPT ![c].arg = argumentAfter(input[c].op, input[c].arg)]

NextCallers ==
    \/ \E c \in Callers : CallerInvokes(c)

SpecCallers == InitCallers /\ [][NextCallers]_vars

(***************************************************************************)
(* POST /api/analyze-transcript                                            *)
(***************************************************************************)
FILE_TOO_LARGE == "FILE_TOO_LARGE"
API_KEY_MISSING == "API_KEY_MISSING"
API_REQUEST_FAILED == "API_REQUEST_FAILED"
RATE_LIMIT_EXCEEDED == "RATE_LIMIT_EXCEEDED"
NETWORK_ERROR == "NETWORK_ERROR"
UNKNOWN_ERROR == "UNKNOWN_ERROR"

\* FILE_CONSTRAINTS
MAX_SIZE_BYTES == 20971520
TEXT_EXTENSIONS == {<<".", "t", "x", "t">>}
AUDIO_EXTENSIONS ==
    {<<".", "m", "p", "3">>, <<".", "w", "a", "v">>, <<".", "o", "g", "g">>, <<".", "m", "4", "a">>}

\* String.prototype.endsWith
endsWith(s, suffix) ==
    Len(suffix) <= Len(s) /\ SubSeq(s, Len(s) - Len(suffix) + 1, Len(s)) = suffix

isTextFile(file) == \E ext \in TEXT_EXTENSIONS : endsWith(toLowerCase(file.name), ext)
isAudioFile(file) == \E ext \in AUDIO_EXTENSIONS : endsWith(toLowerCase(file.name), ext)

\* NextResponse.json(body, { status }), and the state of a request that has
\* no response yet; transcript is the handler's variable of that name
NoResponse == [kind |-> "none", status |-> 0, code |-> "", transcript |-> <<>>]
Pending(transcript) == [kind |-> "none", status |-> 0, code |-> "", transcript |-> transcript]
JsonResponse(status, code, transcript) ==
    [kind |-> "response", status |-> status, code |-> code, transcript |-> transcript]

\* The three gates of the handler and what they end in: a response, or the
\* branch the request goes on in.  A form field that is a string and not a
\* File has neither size nor name: the comparison of undefined is false and
\* the call of toLowerCase throws into the catch of the handler.
gate(file) ==
    IF file.kind = "null"
    THEN [passed |-> FALSE, audio |-> FALSE, response |-> JsonResponse(400, INVALID_FILE_FORMAT, <<>>)]
    ELSE IF file.kind = "string"
    THEN [passed |-> FALSE, audio |-> FALSE, response |-> JsonResponse(500, UNKNOWN_ERROR, <<>>)]
    ELSE IF file.size > MAX_SIZE_BYTES
    THEN [passed |-> FALSE, audio |-> FALSE, response |-> JsonResponse(400, FILE_TOO_LARGE, <<>>)]
    ELSE IF ~isTextFile(file) /\ ~isAudioFile(file)
    THEN [passed |-> FALSE, audio |-> FALSE, response |-> JsonResponse(400, INVALID_FILE_FORMAT, <<>>)]
    ELSE [passed |-> TRUE, audio |-> isAudioFile(file), response |-> NoResponse]

\* The error code the handler takes from the message of a failed Gemini call
errorCodeOf(message) ==
    IF message \in {RATE_LIMIT_EXCEEDED, API_KEY_MISSING, NETWORK_ERROR} THEN message
    ELSE API_REQUEST_FAILED

\* The handler from the result of a parser on: a failed parse answers with
\* the given status and code, a parse that returned goes on to
\* GeminiService.fromEnvironment() and the call of analyzeTranscript.
\* The handler with the failed parse passed over
afterParse_analyzeAnyway(parsed, status, code, apiKey) ==
    IF ~apiKey
    THEN [pc |-> "responded", calls |-> <<>>, outcome |-> JsonResponse(500, API_KEY_MISSING, parsed.entries)]
    ELSE [pc |-> "analyzing", calls |-> <<"analyzeTranscript">>, outcome |-> Pending(parsed.entries)]

afterParse(parsed, status, code, apiKey) ==
    IF parsed.kind = "throw"
    THEN [pc |-> "responded", calls |-> <<>>, outcome |-> JsonResponse(status, code, <<>>)]
    ELSE IF ~apiKey
    THEN [pc |-> "responded", calls |-> <<>>, outcome |-> JsonResponse(500, API_KEY_MISSING, parsed.entries)]
    ELSE [pc |-> "analyzing", calls |-> <<"analyzeTranscript">>, outcome |-> Pending(parsed.entries)]

\* Longest text of an uploaded file
MaxRouteLines == 2

FileNames ==
    {<<"a", ".", "t", "x", "t">>, <<"A", ".", "T", "X", "T">>, <<"a", ".", "m", "p", "3">>,
     <<"a", ".", "p", "d", "f">>, <<"t", "x", "t">>, <<"a", ".", "t", "x", "t", ".", "m", "4", "a">>}

RouteTexts == TextsOver({LnBlank, LnAgenda, LnHour25}, MaxRouteLines)

Files ==
    {[kind |-> "null", size |-> 0, name |-> <<>>, content |-> StringInput(<< <<>> >>)],
     [kind |-> "string", size |-> 0, name |-> <<>>, content |-> StringInput(<< <<>> >>)]}
    \cup {[kind |-> "File", size |-> s, name |-> n, content |-> StringInput(t)] :
            s \in {1, MAX_SIZE_BYTES, MAX_SIZE_BYTES + 1}, n \in FileNames, t \in RouteTexts}

\* What transcribeAudio and analyzeTranscript settle with: the transcript
\* text or the message of the error thrown, and success or such a message
Transcriptions ==
    {[ok |-> TRUE, message |-> "", transcript |-> StringInput(t)] : t \in {<<LnBracket>>, <<LnShort>>}}
    \cup {[ok |-> FALSE, message |-> m, transcript |-> StringInput(<< <<>> >>)] :
            m \in {NETWORK_ERROR, "Empty response from Gemini API"}}

Analyses ==
    {[ok |-> TRUE, message |-> ""], [ok |-> FALSE, message |-> RATE_LIMIT_EXCEEDED],
     [ok |-> FALSE, message |-> "Empty response from Gemini API"]}

\* input: the request and what its environment will do; pc: where the
\* handler stands; call: the stages and collaborators the handler has
\* reached, in order; outcome: the transcript and the response
InitRoute ==
    /\ input \in [file : Files, apiKey : BOOLEAN,
                  transcription : Transcriptions, analysis : Analyses]
    /\ pc = "received"
    /\ call = <<>>
    /\ outcome = NoResponse

\* request.formData() has resolved: the gates, and for an audio file
\* fromEnvironment() and the call of transcribeAudio, for a text file the
\* call of file.text()
Gate ==
    /\ pc = "received"
    /\ IF ~gate(input.file).passed
       THEN /\ pc' = "responded"
            /\ call' = <<"gate">>
            /\ outcome' = gate(input.file).response
       ELSE IF gate(input.file).audio
       THEN IF ~input.apiKey
            THEN /\ pc' = "responded"
                 /\ call' = <<"gate">>
                 /\ outcome' = JsonResponse(500, API_KEY_MISSING, <<>>)
            ELSE /\ pc' = "transcribing"
                 /\ call' = <<"gate", "transcribeAudio">>
                 /\ outcome' = NoResponse
       ELSE /\ pc' = "reading"
            /\ call' = <<"gate">>
            /\ outcome' = NoResponse
    /\ UNCHANGED input

\* file.text() has resolved: the empty file is answered, any other is parsed
FileTextResolves ==
    /\ pc = "reading"
    /\ IF trimText(input.file.content.text) = << <<>> >>
       THEN /\ pc' = "responded"
            /\ call' = call
            /\ outcome' = JsonResponse(400, PARSING_ERROR, <<>>)
       ELSE LET next == afterParse(parseTranscript(input.file.content), 400, PARSING_ERROR,
                                   input.apiKey)
            IN  /\ pc' = next.pc
                /\ call' = call \o <<"parseTranscript">> \o next.calls
                /\ outcome' = next.outcome
    /\ UNCHANGED input

\* transcribeAudio has settled: its error is answered, its text is parsed
TranscriptionSettles ==
    /\ pc = "transcribing"
    /\ IF ~input.transcription.ok
       THEN /\ pc' = "responded"
            /\ call' = call
            /\ outcome' = JsonResponse(500, errorCodeOf(input.transcription.message), <<>>)
       ELSE LET next == afterParse(parseTranscriptFromText(input.transcription.transcript),
                                   500, API_REQUEST_FAILED, input.apiKey)
            IN  /\ pc' = next.pc
                /\ call' = call \o <<"parseTranscriptFromText">> \o next.calls
                /\ outcome' = next.outcome
    /\ UNCHANGED input

\* analyzeTranscript has settled
AnalysisSettles ==
    /\ pc = "analyzing"
    /\ pc' = "responded"
    /\ outcome' = IF input.analysis.ok THEN JsonResponse(200, "", outcome.transcript)
                  ELSE JsonResponse(500, errorCodeOf(input.analysis.message), outcome.transcript)
    /\ UNCHANGED <<input, call>>

NextRoute ==
    \/ Gate
    \/ FileTextResolves
    \/ TranscriptionSettles
    \/ AnalysisSettles

SpecRoute == InitRoute /\ [][NextRoute]_vars

(***************************************************************************)
(* Texts of plain lines and the lenient parser                             *)
(***************************************************************************)
\* A line of the plain-text grammar, a line no grammar takes and the fallback
\* pass keeps, a line both skip, and a blank line
SyntheticPool == {LnBlank, LnPlain, LnLen5, LnShort}

\* Longest text over SyntheticPool
MaxSyntheticLines == 4

InitSynthetic ==
    /\ input \in {StringInput(t) : t \in TextsOver(SyntheticPool, MaxSyntheticLines)}
    /\ pc = "ready"
    /\ call = "none"
    /\ outcome = NoOutcome

NextSynthetic ==
    \/ CallParseTranscriptFromText

SpecSynthetic == InitSynthetic /\ [][NextSynthetic]_vars

(***************************************************************************)
(* The entries a parser returned, given to the validator                   *)
(***************************************************************************)
\* Lines of the strict format with a section of word characters, with a
\* hyphen in the section and with an hour of 25, a labelled line with the
\* dash, a plain line and a blank line
PipelinePool == {LnBlank, LnAgenda, LnDashSection, LnHour25, LnDashSpaced, LnPlain}

\* Longest text over PipelinePool
MaxPipelineLines == 3

InitPipeline ==
    /\ input \in {StringInput(t) : t \in TextsOver(PipelinePool, MaxPipelineLines)}
    /\ pc = "ready"
    /\ call = "none"
    /\ outcome = NoOutcome

\* validateTranscriptEntries on the list the parser returned
ValidateParsed ==
    /\ pc = "done"
    /\ outcome.kind = "return"
    /\ outcome' = Validated(outcome.entries, validateTranscriptEntries(outcome.entries))
    /\ pc' = "validated"
    /\ UNCHANGED <<input, call>>

NextPipeline ==
    \/ CallParseTranscript
    \/ CallParseTranscriptFromText
    \/ ValidateParsed

SpecPipeline == InitPipeline /\ [][NextPipeline]_vars

(***************************************************************************)
(* GeminiService.analyzeTranscript and the metadata of its result          *)
(***************************************************************************)
\* GeminiService.calculateTotalDuration
calculateTotalDuration(transcript) ==
    IF Len(transcript) = 0 THEN <<"0", "0", ":", "0", "0", ":", "0", "0">>
    ELSE transcript[Len(transcript)].timestamp

\* GeminiService.calculateWordCount
calculateWordCount(transcript) == countWordsAfter(transcript, Len(transcript))

\* The result of the analysis: the metadata added to the data of the response
AnalysisResult(totalDuration, wordCount) ==
    [kind |-> "return", code |-> "",
     metadata |-> [totalDuration |-> totalDuration, wordCount |-> wordCount]]
AnalysisError(code) ==
    [kind |-> "throw", code |-> code,
     metadata |-> [totalDuration |-> <<>>, wordCount |-> 0]]

\* analyzeTranscript with the response of the API usable or not
analyzeTranscript(transcript, usable) ==
    IF Len(transcript) = 0 THEN AnalysisError("Transcript cannot be empty")
    ELSE IF ~usable THEN AnalysisError(API_REQUEST_FAILED)
    ELSE AnalysisResult(calculateTotalDuration(transcript), calculateWordCount(transcript))

\* Longest list of entries given to the analysis
MaxAnalyzed == 3

InitMetadata ==
    /\ input \in {<<>>} \cup TextsOver(EntryPool, MaxAnalyzed)
    /\ pc = "ready"
    /\ call = "none"
    /\ outcome = NoOutcome

CallAnalyzeTranscript ==
    /\ pc = "ready"
    /\ call' = "analyzeTranscript"
    /\ \E usable \in BOOLEAN : outcome' = analyzeTranscript(input, usable)
    /\ pc' = "done"
    /\ UNCHANGED input

NextMetadata ==
    \/ CallAnalyzeTranscript

SpecMetadata == InitMetadata /\ [][NextMetadata]_vars

(***************************************************************************)
(* The page: one run of Home.analyzeTranscript and its timers              *)
(***************************************************************************)
\* Time is counted in steps of 100 ms.  input is the file, pc the await the
\* run stands at, call the clock with the pending timers, outcome the
\* analysisState of the page.
AnalysisState(isAnalyzing, progress, stage, result, error) ==
    [isAnalyzing |-> isAnalyzing, progress |-> progress, stage |-> stage,
     result |-> result, error |-> error]

\* useState<AnalysisState>(...), handleFileSelect and resetToInitialState
InitialAnalysisState == AnalysisState(FALSE, 0, "parsing", FALSE, FALSE)
\* The state set at the start of analyzeTranscript
StartedAnalysisState == AnalysisState(TRUE, 0, "parsing", FALSE, FALSE)
\* The state set in the catch block
ErrorAnalysisState == AnalysisState(FALSE, 0, "error", FALSE, TRUE)
\* The state set after the wait of 2 seconds
CompleteAnalysisState == AnalysisState(FALSE, 100, "complete", TRUE, FALSE)

\* setTimeout(callback, delay): seq is the order of the calls, stage "" a
\* callback that leaves the stage, progress -1 the resolve of the wait
Timer(seq, now, delay, progress, stage) ==
    [seq |-> seq, due |-> now + delay, progress |-> progress, stage |-> stage]

\* The timers set ahead of the request
timersBeforeFetch(now) ==
    {Timer(1, now, 1, 5, ""), Timer(2, now, 3, 15, ""), Timer(3, now, 5, 25, "analyzing"),
     Timer(4, now, 8, 35, ""), Timer(5, now, 12, 45, "")}

\* The timers set when the response has come
timersAfterFetch(now) ==
    {Timer(6, now, 1, 65, "formatting"), Timer(7, now, 3, 75, ""), Timer(8, now, 5, 85, "")}

\* The timer set when the body has been read, and the wait of 2 seconds
timersAfterJson(now) ==
    {Timer(9, now, 2, 95, ""), Timer(10, now, 20, -1, "")}

\* setAnalysisState((prev) => ({ ...prev, progress, stage }))
updateAnalysisState(prev, timer) ==
    [prev EXCEPT !.progress = timer.progress,
                 !.stage = IF timer.stage = "" THEN prev.stage ELSE timer.stage]

\* The timer the event loop runs next: the one due first, in the order of
\* the setTimeout calls among those due together
nextTimer(timers) ==
    CHOOSE t \in timers :
        \A u \in timers : t.due < u.due \/ (t.due = u.due /\ t.seq <= u.seq)

Clock(now, since, timers) == [now |-> now, since |-> since, timers |-> timers]

\* Longest time, in steps of 100 ms, an awaited promise takes to settle
MaxLatency == 13

InitPage ==
    /\ input \in {[isText |-> b] : b \in BOOLEAN}
    /\ pc = "idle"
    /\ call = Clock(0, 0, {})
    /\ outcome = InitialAnalysisState

\* handleFileSelect: the states are reset and analyzeTranscript runs to its
\* first await, file.text() for a text file and the fetch for any other
HandleFileSelect ==
    /\ pc = "idle"
    /\ outcome' = StartedAnalysisState
    /\ IF input.isText
       THEN /\ pc' = "file.text"
            /\ call' = Clock(call.now, call.now, call.timers)
       ELSE /\ pc' = "fetch"
            /\ call' = Clock(call.now, call.now, call.timers \cup timersBeforeFetch(call.now))
    /\ UNCHANGED input

\* file.text() resolves: parseTranscript throws into the catch block, or the
\* run sets its first timers and awaits the fetch
FileTextRead ==
    /\ pc = "file.text"
    /\ \E parsed \in BOOLEAN :
          IF parsed
          THEN /\ pc' = "fetch"
               /\ call' = Clock(call.now, call.now, call.timers \cup timersBeforeFetch(call.now))
               /\ UNCHANGED outcome
          ELSE /\ pc' = "ended"
               /\ outcome' = ErrorAnalysisState
               /\ UNCHANGED call
    /\ UNCHANGED input

\* The fetch settles: rejected into the catch block, or resolved, the run
\* setting the next timers and awaiting response.json()
FetchSettles ==
    /\ pc = "fetch"
    /\ \E resolved \in BOOLEAN :
          IF resolved
          THEN /\ pc' = "response.json"
               /\ call' = Clock(call.now, call.now, call.timers \cup timersAfterFetch(call.now))
               /\ UNCHANGED outcome
          ELSE /\ pc' = "ended"
               /\ outcome' = ErrorAnalysisState
               /\ UNCHANGED call
    /\ UNCHANGED input

\* response.json() resolves: without success the run throws into the catch
\* block, with success it sets the last timer and waits 2 seconds
JsonRead ==
    /\ pc = "response.json"
    /\ \E success \in BOOLEAN :
          IF success
          THEN /\ pc' = "wait"
               /\ call' = Clock(call.now, call.now, call.timers \cup timersAfterJson(call.now))
               /\ UNCHANGED outcome
          ELSE /\ pc' = "ended"
               /\ outcome' = ErrorAnalysisState
               /\ UNCHANGED call
    /\ UNCHANGED input

\* The event loop runs the next timer that is due: a progress update, or the
\* end of the wait, after which the run completes
TimerFires ==
    /\ call.timers # {}
    /\ nextTimer(call.timers).due <= call.now
    /\ call' = Clock(call.now, call.since, call.timers \ {nextTimer(call.timers)})
    /\ IF nextTimer(call.timers).progress = -1
       THEN /\ pc' = "ended"
            /\ outcome' = CompleteAnalysisState
       ELSE /\ pc' = pc
            /\ outcome' = updateAnalysisState(outcome, nextTimer(call.timers))
    /\ UNCHANGED input

\* 100 ms pass: no timer is due, and a promise the run awaits has not been
\* pending for the longest time
TimePasses ==
    /\ pc # "idle"
    /\ call.timers # {} \/ pc \in {"file.text", "fetch", "response.json"}
    /\ \A t \in call.timers : t.due > call.now
    /\ pc \in {"file.text", "fetch", "response.json"} => call.now - call.since < MaxLatency
    /\ call' = Clock(call.now + 1, call.since, call.timers)
    /\ UNCHANGED <<input, pc, outcome>>

\* resetToInitialState on a run that has ended
ResetToInitialState ==
    /\ pc = "ended"
    /\ outcome' = InitialAnalysisState
    /\ pc' = "reset"
    /\ UNCHANGED <<input, call>>

NextPage ==
    \/ HandleFileSelect
    \/ FileTextRead
    \/ FetchSettles
    \/ JsonRead
    \/ TimerFires
    \/ TimePasses
    \/ ResetToInitialState

SpecPage == InitPage /\ [][NextPage]_vars

(***************************************************************************)
(* Properties                                                              *)
(***************************************************************************)
\* The argument is a non-empty string: the call passes the guard.
IsText == input.type = "string" /\ ~Falsy(input)

\* The lines of the text as the caller supplied it
RawLines == input.text

\* The lines the loops run over
TextLines == split(trimText(input.text))

StrictDone == pc = "done" /\ call = "parseTranscript"
LenientDone == pc = "done" /\ call = "parseTranscriptFromText"

\* The non-blank lines of the caller's text, by their position in it
NonBlankRaw ==
    SelectSeq([i \in 1..Len(RawLines) |-> i], LAMBDA i : trim(RawLines[i]) # <<>>)

\* The blank lines ahead of the first non-blank one
LeadingBlank == IF NonBlankRaw = <<>> THEN 0 ELSE NonBlankRaw[1] - 1

\* The non-blank lines of the caller's text that parseLine rejects
StrictFailingRaw ==
    SelectSeq(NonBlankRaw, LAMBDA i : parseLine(trim(RawLines[i]), i).kind = "error")

Ascending(errors) ==
    \A k \in 1..(Len(errors) - 1) : errors[k].line < errors[k + 1].line

\* C1: strict mode scans every line without stopping at the first failure: when
\* at least one non-blank line fails, parseTranscript throws one error whose
\* message holds one "Line k" item for every failing line and for no passing
\* line, in ascending line order (item k carries the message of the k-th
\* failing line), the scan having run to the last line, and no entry reaches
\* the caller.
C1_AllFailingLinesReported ==
    (StrictDone /\ IsText /\ StrictFailingRaw # <<>>) =>
        /\ outcome.kind = "throw"
        /\ outcome.msg = "Failed to parse transcript"
        /\ outcome.entries = <<>>
        /\ outcome.scanned = Len(TextLines)
        /\ Len(outcome.errors) = Len(StrictFailingRaw)
        /\ \A k \in 1..Len(outcome.errors) :
              /\ outcome.errors[k].msg =
                    parseLine(trim(RawLines[StrictFailingRaw[k]]), StrictFailingRaw[k]).msg
              /\ outcome.errors[k].line = StrictFailingRaw[k] - LeadingBlank
        /\ Ascending(outcome.errors)

\* C1 witness: a failed strict parse of a text whose first line fails, whose
\* second line passes and whose third line fails again.
C1_Witness ==
    /\ StrictDone /\ IsText
    /\ Len(StrictFailingRaw) >= 2
    /\ StrictFailingRaw[1] = 1 /\ StrictFailingRaw[2] = 3
    /\ trim(RawLines[2]) # <<>>
    /\ outcome.kind = "throw"
    /\ Len(outcome.errors) = Len(StrictFailingRaw)

IsSpaceRun(line, a, b) == a <= b /\ \A j \in a..b : IsSpace(line[j])

NoSpaceIn(s) == \A j \in 1..Len(s) : ~IsSpace(s[j])

\* line is a dash, whitespace, the timestamp of e, whitespace, the section of
\* e, whitespace and the content of e, in that order and with nothing else.
StrictLineOf(line, e) ==
    LET t == Len(e.timestamp)
        s == Len(e.section)
        n == Len(line)
    IN  /\ n >= 1 /\ line[1] = "-"
        /\ \E p1 \in 3..n :
              /\ IsSpaceRun(line, 2, p1 - 1)
              /\ p1 + t - 1 <= n
              /\ SubSeq(line, p1, p1 + t - 1) = e.timestamp
              /\ \E p2 \in (p1 + t + 1)..n :
                    /\ IsSpaceRun(line, p1 + t, p2 - 1)
                    /\ p2 + s - 1 <= n
                    /\ SubSeq(line, p2, p2 + s - 1) = e.section
                    /\ \E p3 \in (p2 + s + 1)..n :
                          /\ IsSpaceRun(line, p2 + s, p3 - 1)
                          /\ SubSeq(line, p3, n) = e.content

\* The fields of e are trimmed and not empty, the section one token
TrimmedFields(e) ==
    /\ e.timestamp # <<>> /\ NoSpaceIn(e.timestamp)
    /\ e.section # <<>> /\ NoSpaceIn(e.section)
    /\ e.content # <<>>
    /\ ~IsSpace(e.content[1]) /\ ~IsSpace(e.content[Len(e.content)])

\* C2: a successful parseTranscript returns one entry for every non-blank line
\* of the text, in the order of the lines, and the timestamp, section and
\* content of the k-th entry are the trimmed timestamp, token and remainder of
\* the k-th non-blank line.
C2_OneEntryPerLineInOrder ==
    (StrictDone /\ outcome.kind = "return") =>
        /\ Len(outcome.entries) = Len(NonBlankRaw)
        /\ \A k \in 1..Len(outcome.entries) :
              /\ TrimmedFields(outcome.entries[k])
              /\ StrictLineOf(trim(RawLines[NonBlankRaw[k]]), outcome.entries[k])

\* C2 witness: a successful strict parse of a text with a blank line between
\* two lines, the later timestamp on the first of them.
C2_Witness ==
    /\ StrictDone /\ outcome.kind = "return"
    /\ RawLines = <<LnAgenda, LnBlank, LnIntro>>
    /\ Len(outcome.entries) = 2
    /\ outcome.entries[1].timestamp = <<"0", "0", ":", "0", "1", ":", "3", "0">>
    /\ outcome.entries[2].timestamp = <<"0", "0", ":", "0", "0", ":", "0", "5">>

\* The cascade over the lines of the call
LenientResults == GeminiScan(TextLines)
CascadeEntries == EntriesOf(LenientResults)
CascadeErrors == ErrorsOf(LenientResults)
FallbackEntries == parseTranscriptFallback(input)

\* The lines of the text with the blank lines ahead of its first non-blank
\* line and behind its last one left out; one empty line where all are blank.
TrimmedLineCount ==
    IF NonBlankRaw = <<>> THEN 1
    ELSE NonBlankRaw[Len(NonBlankRaw)] - NonBlankRaw[1] + 1

ThrowsAggregated ==
    /\ outcome.kind = "throw"
    /\ outcome.code = INVALID_FILE_FORMAT
    /\ outcome.msg = "Failed to parse transcript"
    /\ outcome.errors = CascadeErrors

ThrowsNoValidEntries ==
    /\ outcome.kind = "throw"
    /\ outcome.code = INVALID_FILE_FORMAT
    /\ outcome.msg = "No valid transcript entries found"
    /\ outcome.errors = <<>>

\* C3 as stated: with zero errors the cascade entries are returned; with errors
\* under 80% of all lines of the input and a non-empty fallback pass the cascade
\* entries are returned with the fallback entries behind them; otherwise the
\* call throws the aggregated per-line errors.
C3_AsStated ==
    (LenientDone /\ IsText) =>
        LET e == Len(CascadeErrors)
            n == Len(RawLines)
        IN  /\ e = 0 => outcome.kind = "return" /\ outcome.entries = CascadeEntries
            /\ (e > 0 /\ 5 * e < 4 * n /\ FallbackEntries # <<>>) =>
                  /\ outcome.kind = "return"
                  /\ outcome.entries = CascadeEntries \o FallbackEntries
            /\ (e > 0 /\ (5 * e >= 4 * n \/ FallbackEntries = <<>>)) => ThrowsAggregated

\* C3, amended: the lenient outcome is decided after the scan of every line of
\* the trimmed text.  With zero errors the cascade entries are returned when
\* there is one, and the call throws "no valid entries" when there is none.
\* With an error, errors under 80% of the lines of the text trimmed of the
\* blank lines at its two ends, and a non-empty fallback pass, the cascade
\* entries are returned with all fallback entries behind them.  With errors at
\* 80% of those lines or more, or an empty fallback pass, the call throws the
\* aggregated per-line errors.
C3_LenientOutcome ==
    (LenientDone /\ IsText) =>
        LET e == Len(CascadeErrors)
            n == TrimmedLineCount
        IN  /\ outcome.scanned = n
            /\ (e = 0 /\ CascadeEntries # <<>>) =>
                  outcome.kind = "return" /\ outcome.entries = CascadeEntries
            /\ (e = 0 /\ CascadeEntries = <<>>) => ThrowsNoValidEntries
            /\ (e > 0 /\ 5 * e < 4 * n /\ FallbackEntries # <<>>) =>
                  /\ outcome.kind = "return"
                  /\ outcome.entries = CascadeEntries \o FallbackEntries
            /\ (e > 0 /\ (5 * e >= 4 * n \/ FallbackEntries = <<>>)) => ThrowsAggregated

\* C3 witness: a lenient call on five lines of which the cascade rejects
\* three, returning a cascade entry with the fallback entries behind it.
C3_Witness ==
    /\ LenientDone /\ IsText
    /\ TrimmedLineCount = MaxThreshold
    /\ Len(CascadeErrors) = 3
    /\ CascadeEntries # <<>>
    /\ outcome.kind = "return"
    /\ Len(outcome.entries) = Len(CascadeEntries) + Len(FallbackEntries)
    /\ outcome.entries[Len(outcome.entries)].section = Word_transcript

\* C4: every entry either parser returns has a timestamp isValidTimestamp
\* accepts, a section that is not empty and a content that is not empty and
\* has no whitespace at either end, whatever the number of lines of the text.
C4_ReturnedEntriesWellFormed ==
    (pc = "done" /\ outcome.kind = "return") =>
        \A k \in 1..Len(outcome.entries) :
            /\ isValidTimestamp(outcome.entries[k].timestamp)
            /\ outcome.entries[k].section # <<>>
            /\ outcome.entries[k].content # <<>>
            /\ trim(outcome.entries[k].content) = outcome.entries[k].content

\* The upper-case letter of a lower-case one
UpperOf(c) ==
    IF \E j \in 1..Len(LowerSeq) : LowerSeq[j] = c
    THEN UpperSeq[CHOOSE j \in 1..Len(LowerSeq) : LowerSeq[j] = c]
    ELSE c

\* w, a lower-case word, stands in line in some mix of cases
ContainsIgnoringCase(line, w) ==
    \E p \in 0..(Len(line) - Len(w)) :
        \A j \in 1..Len(w) : line[p + j] = w[j] \/ line[p + j] = UpperOf(w[j])

DigitsThenPeriod(line) ==
    /\ Len(line) >= 2
    /\ line[Len(line)] = "."
    /\ \A j \in 1..(Len(line) - 1) : IsDigit(line[j])

\* The lines the lenient cascade is to pass over in silence
ShouldSkip(line) ==
    \/ Len(line) < 5
    \/ DigitsThenPeriod(line)
    \/ ContainsIgnoringCase(line, Word_transcript)

\* The non-blank lines of the caller's text that are not to be skipped
NotSkippedRaw == SelectSeq(NonBlankRaw, LAMBDA i : ~ShouldSkip(trim(RawLines[i])))

\* C5: neither parser returns an empty list of entries: a text of blank lines
\* only, and in lenient mode a text whose non-blank lines are all skipped in
\* silence, makes the call throw "no valid entries".
C5_NeverReturnsEmpty ==
    /\ (pc = "done" /\ outcome.kind = "return") => outcome.entries # <<>>
    /\ (StrictDone /\ IsText /\ NonBlankRaw = <<>>) => ThrowsNoValidEntries
    /\ (LenientDone /\ IsText /\ NotSkippedRaw = <<>>) => ThrowsNoValidEntries

\* C5 witness: a lenient call on a text of two non-blank lines, both skipped,
\* that throws "no valid entries".
C5_Witness ==
    /\ LenientDone /\ IsText
    /\ Len(NonBlankRaw) = 2
    /\ NotSkippedRaw = <<>>
    /\ outcome.kind = "throw"
    /\ outcome.msg = "No valid transcript entries found"

NotAString == input.type # "string"
EmptyString == input.type = "string" /\ input.text = << <<>> >>
WhitespaceOnly ==
    /\ input.type = "string"
    /\ input.text # << <<>> >>
    /\ NonBlankRaw = <<>>

\* C6 as stated: an argument that is no string, the empty string and a string
\* of whitespace only all fail with INVALID_FILE_FORMAT before any line is
\* scanned.
C6_AsStated ==
    (pc = "done" /\ (NotAString \/ EmptyString \/ WhitespaceOnly)) =>
        /\ outcome.kind = "throw"
        /\ outcome.code = INVALID_FILE_FORMAT
        /\ outcome.scanned = 0

\* C6, amended: for both parsers, an argument that is no string and the empty
\* string fail with INVALID_FILE_FORMAT and the message "invalid input" before
\* any line is scanned; a string of whitespace only passes that guard, is
\* trimmed to one empty line which the scan passes over, and fails after the
\* scan with INVALID_FILE_FORMAT and the message "no valid entries".
C6_MalformedInputRejected ==
    /\ (pc = "done" /\ (NotAString \/ EmptyString)) =>
          /\ outcome.kind = "throw"
          /\ outcome.code = INVALID_FILE_FORMAT
          /\ outcome.msg = "Invalid input"
          /\ outcome.scanned = 0
    /\ (pc = "done" /\ WhitespaceOnly) =>
          /\ ThrowsNoValidEntries
          /\ outcome.scanned = 1

\* C6 witness: a call on a string of whitespace only that failed after the scan
C6_Witness ==
    /\ pc = "done" /\ WhitespaceOnly
    /\ \E i \in 1..Len(RawLines) : RawLines[i] # <<>>
    /\ outcome.kind = "throw"
    /\ outcome.scanned = 1

RECURSIVE NumberOf(_)
NumberOf(digits) ==
    IF digits = <<>> THEN 0
    ELSE 10 * NumberOf(SubSeq(digits, 1, Len(digits) - 1)) + DigitVal(digits[Len(digits)])

\* line[p..q] is a whole run of digits with :dd:dd behind it: the hour field
\* of a timestamp
HourFieldAt(line, p, q) ==
    /\ p <= q /\ q + 6 <= Len(line)
    /\ \A j \in p..q : IsDigit(line[j])
    /\ p = 1 \/ ~IsDigit(line[p - 1])
    /\ line[q + 1] = ":" /\ IsDigit(line[q + 2]) /\ IsDigit(line[q + 3])
    /\ line[q + 4] = ":" /\ IsDigit(line[q + 5]) /\ IsDigit(line[q + 6])

\* line holds a timestamp with an hour of 24 or more
HasHour24(line) ==
    \E p \in 1..Len(line) : \E q \in p..Len(line) :
        HourFieldAt(line, p, q) /\ NumberOf(SubSeq(line, p, q)) >= 24

\* C7: no grammar of either parser takes an hour of 24 or more: a text whose
\* one non-blank line holds a timestamp with such an hour makes the call throw,
\* and no entry returned has an hour of 24 or more.
C7_Hour24Rejected ==
    /\ (pc = "done" /\ IsText /\ Len(NonBlankRaw) = 1
            /\ HasHour24(trim(RawLines[NonBlankRaw[1]]))) =>
          outcome.kind = "throw"
    /\ (pc = "done" /\ outcome.kind = "return") =>
          \A k \in 1..Len(outcome.entries) : ~HasHour24(outcome.entries[k].timestamp)

\* C8: a strict parse that fails on its lines throws INVALID_FILE_FORMAT, and
\* the k-th item of the message names the k-th failing line by its position,
\* counted from 1 and with the blank lines counted, in the text the caller
\* supplied.
C8_ErrorsNameCallerLines ==
    (StrictDone /\ IsText /\ outcome.kind = "throw" /\ outcome.errors # <<>>) =>
        /\ outcome.code = INVALID_FILE_FORMAT
        /\ Len(outcome.errors) = Len(StrictFailingRaw)
        /\ \A k \in 1..Len(outcome.errors) : outcome.errors[k].line = StrictFailingRaw[k]

\* Grammar k of the lenient cascade matches the line
Matches(k, line) ==
    CASE k = 1 -> bracketPattern(line).matched
      [] k = 2 -> noBracketPattern(line).matched
      [] k = 3 -> speakerFirstPattern(line).matched
      [] k = 4 -> dashPattern(line).matched
      [] k = 5 -> embeddedPattern(timestampInContent(line))
      [] k = 6 -> plainTextPattern(line)
      [] OTHER -> FALSE

\* The first grammar, in the order 1 to 6, that matches the line; 7 for none
FirstGrammar(line) ==
    IF \E k \in 1..6 : Matches(k, line)
    THEN CHOOSE k \in 1..6 : Matches(k, line) /\ \A j \in 1..(k - 1) : ~Matches(j, line)
    ELSE 7

\* What the first matching grammar makes of every line of the call
FirstMatchResults ==
    [i \in 1..Len(TextLines) |->
        IF trim(TextLines[i]) = <<>> \/ ShouldSkip(trim(TextLines[i])) THEN Skipped
        ELSE parseGeminiLine_branch(trim(TextLines[i]), i, FirstGrammar(trim(TextLines[i])))]

\* A text of one line that is neither blank nor skipped
OneLine ==
    /\ IsText /\ Len(TextLines) = 1
    /\ TextLines[1] # <<>> /\ ~ShouldSkip(TextLines[1])

\* C9: in lenient mode the result of a line that is not skipped is the result
\* of the first of the grammars 1 to 6, tried in that order, that matches it,
\* with the speaker unknown_speaker from grammar 5 and speaker from grammar 6;
\* a line none of them matches gives an error that carries its line number.
C9_FirstMatchingGrammarDecides ==
    (LenientDone /\ IsText) =>
        /\ outcome = parseTranscriptFromText_decide(EntriesOf(FirstMatchResults),
                        ErrorsOf(FirstMatchResults), Len(FirstMatchResults), FallbackEntries)
        /\ (OneLine /\ FirstGrammar(TextLines[1]) = 7) =>
              /\ outcome.kind = "throw"
              /\ outcome.errors = <<[line |-> 1, msg |-> "Invalid line format"]>>
        /\ (OneLine /\ FirstGrammar(TextLines[1]) = 5 /\ outcome.kind = "return") =>
              outcome.entries[1].section = Word_unknown_speaker
        /\ (OneLine /\ FirstGrammar(TextLines[1]) = 6 /\ outcome.kind = "return") =>
              outcome.entries[1].section = Word_speaker

\* C9 witness: a lenient call on one line that grammars 2 and 4 both match,
\* which returned the entry of grammar 2.
C9_Witness ==
    /\ LenientDone /\ OneLine
    /\ Matches(2, TextLines[1]) /\ Matches(4, TextLines[1])
    /\ ~Matches(1, TextLines[1])
    /\ outcome.kind = "return"
    /\ outcome.entries[1].section # dashPattern(TextLines[1]).section
    /\ outcome.entries[1].content = trim(noBracketPattern(TextLines[1]).content)

\* The lines of the call that are neither blank nor to be skipped
NotSkippedLines ==
    {i \in 1..Len(TextLines) :
        trim(TextLines[i]) # <<>> /\ ~ShouldSkip(trim(TextLines[i]))}

\* C10: in lenient mode a non-blank trimmed line gives neither an entry nor an
\* error if and only if it has fewer than 5 characters, or is digits with a
\* period behind them, or holds "transcript" in any mix of cases: every other
\* line gives an entry or an error, no error names a skipped line, and the
\* errors counted against the threshold are errors of lines not skipped.
C10_SkippedLinesAreSilent ==
    (LenientDone /\ IsText) =>
        /\ Len(CascadeEntries) + Len(CascadeErrors) = Cardinality(NotSkippedLines)
        /\ (outcome.kind = "throw" /\ outcome.errors = <<>>) <=> NotSkippedLines = {}
        /\ \A k \in 1..Len(outcome.errors) : outcome.errors[k].line \in NotSkippedLines
        /\ (outcome.kind = "return" /\ CascadeErrors = <<>>) =>
              Len(outcome.entries) = Cardinality(NotSkippedLines)
        /\ (outcome.kind = "return" /\ CascadeErrors # <<>>) =>
              5 * Cardinality(NotSkippedLines) - 5 * Len(CascadeEntries) < 4 * Len(TextLines)

\* C10 witness: a lenient call on a rejected line and a skipped line, which
\* returned the fallback entries: one error in two lines, under the threshold.
C10_Witness ==
    /\ LenientDone /\ IsText
    /\ Len(TextLines) = 2
    /\ Cardinality(NotSkippedLines) = 1
    /\ TextLines[2] # <<>> /\ ShouldSkip(TextLines[2])
    /\ Len(CascadeErrors) = 1
    /\ outcome.kind = "return"

\* s is an hour of 0 to 23 in one or two digits, a minute and a second of 00
\* to 59 in two digits each, with colons between
WellFormedTimestamp(s) ==
    \E h \in 1..2 :
        /\ Len(s) = h + 6
        /\ \A j \in (1..h) \cup {h + 2, h + 3, h + 5, h + 6} : IsDigit(s[j])
        /\ s[h + 1] = ":" /\ s[h + 4] = ":"
        /\ NumberOf(SubSeq(s, 1, h)) <= 23
        /\ NumberOf(SubSeq(s, h + 2, h + 3)) <= 59
        /\ NumberOf(SubSeq(s, h + 5, h + 6)) <= 59

\* line is a dash, whitespace, a well-formed timestamp, whitespace, a token
\* with an upper-case character in it, whitespace and a remainder
UpperCaseSectionLine(line) ==
    /\ Len(line) >= 1 /\ line[1] = "-"
    /\ \E p1 \in 3..Len(line) : \E q1 \in p1..Len(line) :
          /\ IsSpaceRun(line, 2, p1 - 1)
          /\ WellFormedTimestamp(SubSeq(line, p1, q1))
          /\ \E p2 \in (q1 + 2)..Len(line) : \E q2 \in p2..(Len(line) - 2) :
                /\ IsSpaceRun(line, q1 + 1, p2 - 1)
                /\ NoSpaceIn(SubSeq(line, p2, q2))
                /\ IsSpace(line[q2 + 1])
                /\ \E j \in p2..q2 : IsUpper(line[j])

\* C11: in strict mode a line of the line grammar with a valid timestamp and
\* a section token that holds an upper-case character fails with the "section
\* name should be lowercase" error for that line: the call throws, the item of
\* that line carries that message, and no entry is made of the token.
C11_UpperCaseSectionRejected ==
    (StrictDone /\ IsText) =>
        \A k \in 1..Len(NonBlankRaw) :
            UpperCaseSectionLine(trim(RawLines[NonBlankRaw[k]])) =>
                /\ outcome.kind = "throw"
                /\ outcome.entries = <<>>
                /\ \E j \in 1..Len(outcome.errors) :
                      /\ outcome.errors[j].line = NonBlankRaw[k] - LeadingBlank
                      /\ outcome.errors[j].msg = "Section name should be lowercase"

\* C11 witness: a strict call on three lines, the second with an upper-case
\* letter in its section token, which threw the lowercase error for line 2.
C11_Witness ==
    /\ StrictDone /\ IsText
    /\ RawLines = <<LnAgenda, LnUpperSection, LnHour25>>
    /\ UpperCaseSectionLine(LnUpperSection)
    /\ outcome.kind = "throw"
    /\ outcome.errors = <<[line |-> 2, msg |-> "Section name should be lowercase"],
                          [line |-> 3, msg |-> "Invalid timestamp format"]>>

\* s is a well-formed timestamp with whitespace around it; the timestamp is
\* s[i..j]
WellFormedAt(s, i, j) ==
    /\ \A k \in (1..(i - 1)) \cup ((j + 1)..Len(s)) : IsSpace(s[k])
    /\ WellFormedTimestamp(SubSeq(s, i, j))

WellFormedAfterTrim(s) ==
    \E i \in 1..Len(s) : \E j \in i..Len(s) : WellFormedAt(s, i, j)

\* C12: isValidTimestamp(s) is true if and only if s, with the whitespace
\* around it taken off, is an hour of 0 to 23 in one or two digits, a minute of
\* 00 to 59 in two digits and a second of 00 to 59 in two digits, with colons
\* between and nothing else.
C12_IsValidTimestampIff ==
    (pc = "done" /\ call = "isValidTimestamp") =>
        (outcome.value <=> WellFormedAfterTrim(input))

\* C12 witness: isValidTimestamp was true of a one-digit hour with whitespace
\* on both sides.
C12_Witness ==
    /\ pc = "done" /\ call = "isValidTimestamp"
    /\ outcome.value = TRUE
    /\ Len(input) >= 9
    /\ IsSpace(input[1]) /\ IsSpace(input[Len(input)])
    /\ \E i \in 2..(Len(input) - 1) : input[i + 1] = ":" /\ IsSpace(input[i - 1])

\* C13: for every string t the timestamp grammar accepts,
\* secondsToTimestamp(timestampToSeconds(t)) is t, off its surrounding
\* whitespace, with the hour padded with a zero to two digits: t itself when
\* the hour has two digits.
C13_RoundTripCanonical ==
    (pc = "done" /\ call = "secondsToTimestamp") =>
        \A i \in 1..Len(input) : \A j \in i..Len(input) :
            WellFormedAt(input, i, j) =>
                outcome.value = IF j - i = 6 THEN <<"0">> \o SubSeq(input, i, j)
                                ELSE SubSeq(input, i, j)

\* C13 witness: the round trip of a timestamp with a one-digit hour gave the
\* eight characters of its padded form.
C13_Witness ==
    /\ pc = "done" /\ call = "secondsToTimestamp"
    /\ WellFormedTimestamp(input)
    /\ Len(input) = 7
    /\ outcome.value = <<"0">> \o input

\* The seconds of a well-formed timestamp
SecondsOf(s) ==
    LET h == Len(s) - 6
    IN  3600 * NumberOf(SubSeq(s, 1, h)) + 60 * NumberOf(SubSeq(s, h + 2, h + 3))
            + NumberOf(SubSeq(s, h + 5, h + 6))

\* A well-formed timestamp with its hour in two digits
Padded(s) == IF Len(s) = 7 THEN <<"0">> \o s ELSE s

AllWellFormed(entries) ==
    \A k \in 1..Len(entries) : WellFormedTimestamp(entries[k].timestamp)

\* C14: calculateDuration returns null for the empty list, and for a list of
\* entries with timestamps of the grammar the padded form of a timestamp of
\* the list that no other exceeds in seconds, wherever it stands in the list.
C14_DurationIsMaximum ==
    (pc = "done" /\ call = "calculateDuration") =>
        /\ input = <<>> => outcome.isNull
        /\ (input # <<>> /\ AllWellFormed(input)) =>
              /\ ~outcome.isNull
              /\ \E k \in 1..Len(input) :
                    /\ \A j \in 1..Len(input) :
                          SecondsOf(input[j].timestamp) <= SecondsOf(input[k].timestamp)
                    /\ outcome.value = Padded(input[k].timestamp)

\* C14 witness: the duration of three entries is the padded timestamp of the
\* second, a one-digit hour, which is neither the last nor the sum.
C14_Witness ==
    /\ pc = "done" /\ call = "calculateDuration"
    /\ input = <<EnAgenda, EnShortHour, EnIntro>>
    /\ outcome.value = <<"0", "5", ":", "0", "0", ":", "0", "0">>

\* The messages of a list that carry the template msg
MessagesOf(messages, msg) == SelectSeq(messages, LAMBDA w : w.msg = msg)

EntriesValidated == pc = "done" /\ call = "validateTranscriptEntries"

\* C15: validateTranscriptEntries returns on every list; on the empty list the
\* result is invalid with one error and no warning; on any other list the
\* result is valid exactly when validateTranscriptEntry reports no error for
\* any entry of the list, whatever warnings there are.
C15_ValidIffNoEntryError ==
    EntriesValidated =>
        /\ outcome.kind = "return"
        /\ Len(input) = 0 =>
              /\ ~outcome.result.isValid
              /\ Len(outcome.result.errors) = 1
              /\ outcome.result.warnings = <<>>
        /\ Len(input) > 0 =>
              (outcome.result.isValid <=>
                  \A i \in 1..Len(input) : validateTranscriptEntry(input[i]).errors = <<>>)

\* C15 witness: a list with a short content, a repeated timestamp and a
\* descending pair is valid and carries the three kinds of warning.
C15_Witness ==
    /\ EntriesValidated
    /\ input = <<EnLongHour, EnShortHour, EnIntro, EnIntro>>
    /\ outcome.result.isValid
    /\ Len(MessagesOf(outcome.result.warnings, "Very short content in section")) = 1
    /\ Len(MessagesOf(outcome.result.warnings, "Duplicate timestamps found")) = 1
    /\ Len(MessagesOf(outcome.result.warnings, "Timestamps not in chronological order")) = 1

\* A timestamp of the shape d:dd:dd or dd:dd:dd, whatever its numbers
ClockShaped(s) ==
    \E h \in 1..2 :
        /\ Len(s) = h + 6
        /\ \A j \in (1..h) \cup {h + 2, h + 3, h + 5, h + 6} : IsDigit(s[j])
        /\ s[h + 1] = ":" /\ s[h + 4] = ":"

\* entries[i - 1] is later than entries[i], in seconds
Descending(entries, i) ==
    /\ ClockShaped(entries[i - 1].timestamp)
    /\ ClockShaped(entries[i].timestamp)
    /\ SecondsOf(entries[i - 1].timestamp) > SecondsOf(entries[i].timestamp)

\* C16: the warnings about the chronological order are, in order, one for
\* each adjacent pair whose first timestamp is later in seconds than its
\* second, naming the two timestamps; a pair of equal or ascending timestamps
\* gets none, so there are as many warnings as descending pairs.
C16_OneWarningPerDescendingPair ==
    (EntriesValidated /\ Len(input) > 0) =>
        LET pairs == SelectSeq([i \in 1..(Len(input) - 1) |-> i + 1],
                               LAMBDA i : Descending(input, i))
            found == MessagesOf(outcome.result.warnings,
                                "Timestamps not in chronological order")
        IN  /\ Len(found) = Len(pairs)
            /\ \A k \in 1..Len(pairs) :
                  found[k].args = <<input[pairs[k] - 1].timestamp, input[pairs[k]].timestamp>>

\* C16 witness: of the three adjacent pairs of a list the first is equal in
\* seconds (05:00:00 and 5:00:00), the second descends and the third ascends,
\* and the one warning is for the second.
C16_Witness ==
    /\ EntriesValidated
    /\ input = <<EnLongHour, EnShortHour, EnIntro, EnAgenda>>
    /\ Len(MessagesOf(outcome.result.warnings, "Timestamps not in chronological order")) = 1
    /\ MessagesOf(outcome.result.warnings, "Timestamps not in chronological order")[1].args
           = <<EnShortHour.timestamp, EnIntro.timestamp>>

\* The timestamp values that more than one entry of the list carries
RepeatedTimestamps(entries) ==
    {entries[i].timestamp : i \in {i \in 1..Len(entries) :
        \E j \in 1..Len(entries) : j # i /\ entries[j].timestamp = entries[i].timestamp}}

\* The strings that list every value of a set once, with ", " between them
ListingsOf(values) ==
    {join(vs, <<",", " ">>) :
        vs \in {f \in [1..Cardinality(values) -> values] :
                   \A a, b \in 1..Cardinality(values) : a # b => f[a] # f[b]}}

\* C17: there is one warning about duplicate timestamps when some timestamp
\* value is carried by more than one entry and none otherwise, and the
\* warning lists each such value once.
C17_OneDuplicateWarning ==
    (EntriesValidated /\ Len(input) > 0) =>
        LET found == MessagesOf(outcome.result.warnings, "Duplicate timestamps found")
        IN  IF RepeatedTimestamps(input) = {} THEN found = <<>>
            ELSE /\ Len(found) = 1
                 /\ Len(found[1].args) = 1
                 /\ found[1].args[1] \in ListingsOf(RepeatedTimestamps(input))

\* C17 witness: one timestamp carried by three entries gives one warning that
\* lists it once.
C17_Witness ==
    /\ EntriesValidated
    /\ input = <<EnIntro, EnIntro, EnIntro>>
    /\ MessagesOf(outcome.result.warnings, "Duplicate timestamps found")
           = <<Message(0, "Duplicate timestamps found", <<EnIntro.timestamp>>)>>

EntryValidated == pc = "done" /\ call = "validateTranscriptEntry"

\* The errors of validateTranscriptEntry are one per failed field, in the
\* order timestamp, section, content: the timestamp is not of the grammar,
\* the section is empty or has a character outside [A-Za-z0-9_], the content
\* is empty or white space.
EntryErrorsExact ==
    EntryValidated =>
        outcome.result.errors =
            (IF ~WellFormedTimestamp(outcome.arg.timestamp)
             THEN <<Message(0, "Invalid timestamp format", <<outcome.arg.timestamp>>)>>
             ELSE <<>>)
            \o (IF \/ outcome.arg.section = <<>>
                   \/ \E i \in 1..Len(outcome.arg.section) : ~IsWord(outcome.arg.section[i])
                THEN <<Message(0, "Invalid section name", <<outcome.arg.section>>)>>
                ELSE <<>>)
            \o (IF AllSpace(outcome.arg.content)
                THEN <<Message(0, "Content cannot be empty.", <<>>)>>
                ELSE <<>>)

\* C18 as stated: validateTranscriptEntry reports an error exactly for a
\* timestamp that is not of the grammar, for a section that is empty or has a
\* character outside [A-Za-z0-9_] and for a content that is empty or white
\* space, and it reports the short-content warning for every entry whose
\* content has fewer than 10 characters.
C18_AsStated ==
    /\ EntryErrorsExact
    /\ EntryValidated =>
          (Len(outcome.arg.content) < 10 =>
              Len(MessagesOf(outcome.result.warnings, "Very short content in section")) = 1)

\* C18: validateTranscriptEntry reports an error exactly for a timestamp that
\* is not of the grammar, for a section that is empty or has a character
\* outside [A-Za-z0-9_] and for a content that is empty or white space; it
\* reports the short-content warning, once, exactly for a content that is not
\* the empty string and has fewer than 10 characters between its leading and
\* trailing white space.
C18_EntryErrorsAndTrimmedShortWarning ==
    /\ EntryErrorsExact
    /\ EntryValidated =>
          /\ Len(outcome.result.warnings) =
                 Len(MessagesOf(outcome.result.warnings, "Very short content in section"))
          /\ Len(outcome.result.warnings) <= 1
          /\ Len(outcome.result.warnings) = 1
                 <=> (outcome.arg.content # <<>> /\ Len(trim(outcome.arg.content)) < 10)

\* C18 witness: an entry with the empty string for its content gets the
\* error about the content and no warning.
C18_Witness ==
    /\ EntryValidated
    /\ outcome.arg.content = <<>>
    /\ validateTimestamp(outcome.arg.timestamp)
    /\ outcome.result.errors = <<Message(0, "Content cannot be empty.", <<>>)>>
    /\ outcome.result.warnings = <<>>

\* line is a dash, whitespace, a well-formed timestamp, whitespace, a token
\* without whitespace, whitespace and a remainder on the same line
StrictGrammarLine(line) ==
    /\ Len(line) >= 1 /\ line[1] = "-"
    /\ \E p1 \in 3..Len(line) : \E q1 \in p1..Len(line) :
          /\ IsSpaceRun(line, 2, p1 - 1)
          /\ WellFormedTimestamp(SubSeq(line, p1, q1))
          /\ \E p2 \in (q1 + 2)..Len(line) : \E q2 \in p2..(Len(line) - 2) :
                /\ IsSpaceRun(line, q1 + 1, p2 - 1)
                /\ NoSpaceIn(SubSeq(line, p2, q2))
                /\ \E p3 \in (q2 + 2)..Len(line) :
                      /\ IsSpaceRun(line, q2 + 1, p3 - 1)
                      /\ \A j \in p3..Len(line) : line[j] \notin {"\n", "\r"}

\* The lines of the text that are not blank, trimmed
NonBlankTrimmed == [k \in 1..Len(NonBlankRaw) |-> trim(RawLines[NonBlankRaw[k]])]

\* C19: validateTranscriptFormat finds a text valid exactly when the text has
\* a non-blank line and every non-blank line of it is of the line grammar of
\* the strict parser, its token any run without whitespace, with a valid
\* timestamp.
C19_FormatValidIffEveryLineStrict ==
    (pc = "done" /\ call = "validateTranscriptFormat" /\ input.type = "string") =>
        /\ outcome.kind = "return"
        /\ outcome.result.isValid <=>
              /\ Len(NonBlankTrimmed) > 0
              /\ \A k \in 1..Len(NonBlankTrimmed) : StrictGrammarLine(NonBlankTrimmed[k])

\* C20: validateFormat returns, and returns true exactly for a string that is
\* not empty and has a non-blank line of the strict line grammar with a valid
\* timestamp, whatever its other lines are; for null, undefined, a number, the
\* empty string and a string of white space it returns false.
C20_ValidateFormatIffSomeLineStrict ==
    (pc = "done" /\ call = "validateFormat") =>
        /\ outcome.kind = "return"
        /\ outcome.value <=>
              /\ IsText
              /\ \E k \in 1..Len(NonBlankTrimmed) : StrictGrammarLine(NonBlankTrimmed[k])

\* C20 witness: a text of a line outside the grammar, a blank line and a line
\* of the grammar is found valid.
C20_Witness ==
    /\ pc = "done" /\ call = "validateFormat"
    /\ input = StringInput(<<LnShort, LnBlank, LnAgenda>>)
    /\ outcome.value

\* The number of maximal runs of characters that are no white space in s:
\* the places where such a run ends
RunsIn(s) ==
    Cardinality({i \in 1..Len(s) : ~IsSpace(s[i]) /\ (i = Len(s) \/ IsSpace(s[i + 1]))})

RECURSIVE SumOfRuns(_, _)
SumOfRuns(entries, k) ==
    IF k = 0 THEN 0 ELSE SumOfRuns(entries, k - 1) + RunsIn(entries[k].content)

\* C21: countWords returns the sum, over the entries, of the number of
\* maximal runs of non-whitespace characters in the content; an entry with an
\* empty or blank content adds nothing and the empty list gives 0.
C21_CountWordsIsSumOfRuns ==
    (pc = "done" /\ call = "countWords") =>
        /\ outcome.kind = "return"
        /\ outcome.value = SumOfRuns(input, Len(input))
        /\ input = <<>> => outcome.value = 0
        /\ (\A k \in 1..Len(input) : AllSpace(input[k].content)) => outcome.value = 0

\* C21 witness: contents of three words between runs of blanks and a tab, of
\* no character, of two words with blanks around them and of blanks only
\* count five words.
C21_Witness ==
    /\ pc = "done" /\ call = "countWords"
    /\ input = <<EnUpper, EnBadSection, EnPrefix, EnNoNumber>>
    /\ outcome.value = 5

\* a is ahead of b in the lexicographic order of the character codes
LexLess(a, b) ==
    \/ Len(a) < Len(b) /\ SubSeq(b, 1, Len(a)) = a
    \/ \E p \in 1..Len(a) :
          /\ p <= Len(b)
          /\ SubSeq(a, 1, p - 1) = SubSeq(b, 1, p - 1)
          /\ charCodeAt(a[p]) < charCodeAt(b[p])

\* C22: getUniqueSections returns the sections of the entries, each of them
\* once and nothing else, in ascending lexicographic order; the empty list
\* gives the empty array.
C22_UniqueSectionsSorted ==
    (pc = "done" /\ call = "getUniqueSections") =>
        /\ outcome.kind = "return"
        /\ Range(outcome.value) = {input[k].section : k \in 1..Len(input)}
        /\ \A i, j \in 1..Len(outcome.value) :
              i < j => LexLess(outcome.value[i], outcome.value[j])
        /\ input = <<>> => outcome.value = <<>>

\* C22 witness: the sections intro, in, Intro and intro again come back as
\* Intro, in, intro.
C22_Witness ==
    /\ pc = "done" /\ call = "getUniqueSections"
    /\ input = <<EnIntro, EnPrefix, EnUpper, EnIntro>>
    /\ outcome.value = <<EnUpper.section, EnPrefix.section, EnIntro.section>>

\* The result of a call made in isolation: of the operation on its argument
\* with nothing called before
Isolated(op, arg) ==
    IF op = "parseTranscript" THEN parseTranscript(arg.content)
    ELSE IF op = "isValidTimestamp" THEN BooleanValue(isValidTimestamp(arg.timestamp))
    ELSE IF op = "validateTranscriptEntry"
    THEN Validated(arg.entry, validateTranscriptEntry(arg.entry))
    ELSE getUniqueSections(arg.entries)

StageAt(name) ==
    IF \E i \in 1..Len(call) : call[i] = name
    THEN CHOOSE i \in 1..Len(call) : call[i] = name
    ELSE 0

ParserAt ==
    IF StageAt("parseTranscript") > 0 THEN StageAt("parseTranscript")
    ELSE StageAt("parseTranscriptFromText")

\* The gate that rejects the request, by the request alone: the first of
\* missing file, size above 20MB and extension outside the whitelist
GateRejection ==
    IF input.file.kind = "null" THEN INVALID_FILE_FORMAT
    ELSE IF input.file.kind = "File" /\ input.file.size > 20 * 1024 * 1024 THEN FILE_TOO_LARGE
    ELSE IF input.file.kind = "File"
            /\ \A ext \in TEXT_EXTENSIONS \cup AUDIO_EXTENSIONS :
                  ~endsWith(toLowerCase(input.file.name), ext)
    THEN INVALID_FILE_FORMAT
    ELSE ""

\* C24: the handler goes through gating, then parsing, then the analysis.
\* A request without a file, with a file above 20MB or with an extension
\* outside the whitelist is answered 400 with INVALID_FILE_FORMAT,
\* FILE_TOO_LARGE and INVALID_FILE_FORMAT, the first gate that fails
\* deciding, and never reaches a parser; analyzeTranscript is called only
\* after a parser returned entries; a text file the strict parser fails on is
\* answered 400 PARSING_ERROR.
C24_GateThenParseThenAnalyze ==
    /\ pc # "received" => StageAt("gate") = 1
    /\ (pc # "received" /\ GateRejection # "") =>
          /\ pc = "responded"
          /\ outcome.status = 400 /\ outcome.code = GateRejection
          /\ ParserAt = 0 /\ StageAt("analyzeTranscript") = 0
    /\ ParserAt > 0 => StageAt("gate") < ParserAt
    /\ StageAt("analyzeTranscript") > 0 =>
          /\ 0 < ParserAt /\ ParserAt < StageAt("analyzeTranscript")
          /\ Len(outcome.transcript) > 0
    /\ (StageAt("parseTranscript") > 0 /\ parseTranscript(input.file.content).kind = "throw") =>
          /\ pc = "responded"
          /\ outcome.status = 400 /\ outcome.code = PARSING_ERROR
          /\ StageAt("analyzeTranscript") = 0

\* C24 witness: a text file of one good and one bad line passed the gates,
\* reached the strict parser and was answered 400 PARSING_ERROR with
\* analyzeTranscript never called.
C24_Witness ==
    /\ pc = "responded"
    /\ input.file.kind = "File"
    /\ input.file.content = StringInput(<<LnAgenda, LnHour25>>)
    /\ call = <<"gate", "parseTranscript">>
    /\ outcome.status = 400 /\ outcome.code = PARSING_ERROR

\* The timestamp for n seconds: hours, minutes and seconds in two digits
TwoDigits(x) == <<DigitSeq[(x \div 10) + 1], DigitSeq[(x % 10) + 1]>>
ClockOf(n) ==
    TwoDigits(n \div 3600) \o <<":">> \o TwoDigits((n % 3600) \div 60) \o <<":">>
        \o TwoDigits(n % 60)

\* The lines of the caller's text the fallback pass makes entries of, trimmed
FallbackKept ==
    LET at == SelectSeq(NonBlankRaw,
                        LAMBDA i : /\ Len(trim(RawLines[i])) >= 5
                                   /\ ~ContainsIgnoringCase(trim(RawLines[i]), Word_transcript)
                                   /\ ~ContainsIgnoringCase(trim(RawLines[i]), Word_generated)
                                   /\ ~DigitsThenPeriod(trim(RawLines[i])))
    IN  [k \in 1..Len(at) |-> trim(RawLines[at[k]])]

\* The entries that follow the entries of the cascade are those of the
\* fallback pass: the k-th carries 8 * (k - 1) seconds, the section
\* transcript and the k-th kept line
FallbackEntriesSynthetic(nCascade) ==
    Len(outcome.entries) > nCascade =>
        /\ Len(outcome.entries) = nCascade + Len(FallbackKept)
        /\ \A k \in 1..Len(FallbackKept) :
              outcome.entries[nCascade + k]
                  = Entry(ClockOf(8 * (k - 1)), Word_transcript, FallbackKept[k])

\* C25 as stated: the entry the plain-text grammar makes of the line at
\* 0-based index i of the input carries 10 * i seconds; the k-th entry of
\* the fallback pass carries 8 * (k - 1) seconds, the section transcript and
\* the trimmed line.
C25_AsStated ==
    (LenientDone /\ IsText /\ outcome.kind = "return") =>
        LET idx == Indices(FirstMatchResults, "entry")
        IN  /\ \A j \in 1..Len(idx) :
                  FirstGrammar(trim(TextLines[idx[j]])) = 6 =>
                      outcome.entries[j].timestamp = ClockOf(10 * (idx[j] + LeadingBlank - 1))
            /\ FallbackEntriesSynthetic(Len(idx))

\* C25: the entry the plain-text grammar makes of a line carries 10 * i
\* seconds, i being the 0-based index of the line in the text with its
\* leading and trailing white space, blank lines among it, taken off; the
\* k-th entry of the fallback pass carries 8 * (k - 1) seconds, the section
\* transcript and the trimmed line.
C25_SyntheticTimestamps ==
    (LenientDone /\ IsText /\ outcome.kind = "return") =>
        LET idx == Indices(FirstMatchResults, "entry")
        IN  /\ \A j \in 1..Len(idx) :
                  FirstGrammar(trim(TextLines[idx[j]])) = 6 =>
                      outcome.entries[j].timestamp = ClockOf(10 * (idx[j] - 1))
            /\ FallbackEntriesSynthetic(Len(idx))

\* C25 witness: of a blank line, a plain line, a line no grammar takes and a
\* second plain line, the cascade makes entries at 0 and 20 seconds and the
\* fallback pass entries at 0, 8 and 16 seconds.
C25_Witness ==
    /\ LenientDone
    /\ input = StringInput(<<LnBlank, LnPlain, LnLen5, LnPlain>>)
    /\ outcome.kind = "return"
    /\ [k \in 1..Len(outcome.entries) |-> outcome.entries[k].timestamp]
           = <<ClockOf(0), ClockOf(20), ClockOf(0), ClockOf(8), ClockOf(16)>>

\* The groups of the labelled shape the line has: those of the shape with the
\* dash when the line has it, else those of the first of the other three
LabelledFields(line) ==
    IF Matches(4, line) THEN dashPattern(line)
    ELSE IF Matches(1, line) THEN bracketPattern(line)
    ELSE IF Matches(2, line) THEN noBracketPattern(line)
    ELSE speakerFirstPattern(line)

\* The speaker in lower case with every run of white space inside it made
\* one underscore
RECURSIVE Underscored(_)
Underscored(s) ==
    IF s = <<>> THEN <<>>
    ELSE IF IsSpace(s[1])
         THEN IF Len(s) > 1 /\ IsSpace(s[2]) THEN Underscored(Tail(s))
              ELSE <<"_">> \o Underscored(Tail(s))
         ELSE <<LowerChar(s[1])>> \o Underscored(Tail(s))

\* C26: a line of one of the labelled shapes 1 to 4, the shape
\* HH:MM:SS - Speaker: Content with spaces around the dash among them, with a
\* valid timestamp gives an entry with that timestamp, the trimmed content
\* and the speaker in lower case, runs of white space made one underscore,
\* as the section; the dash of the shape is no part of the section.
C26_LabelledShapesGiveSpeakerSection ==
    (/\ LenientDone /\ OneLine
     /\ \E k \in 1..4 : Matches(k, TextLines[1])
     /\ WellFormedTimestamp(LabelledFields(TextLines[1]).timestamp)
     /\ outcome.kind = "return") =>
        /\ outcome.entries[1].timestamp = LabelledFields(TextLines[1]).timestamp
        /\ outcome.entries[1].content = trim(LabelledFields(TextLines[1]).content)
        /\ outcome.entries[1].section
               = Underscored(trim(LabelledFields(TextLines[1]).section))

\* C27: the lenient parser returns at most one entry for a line of its
\* input: the returned list is no longer than the input has non-blank lines,
\* also when the fallback pass has run.
C27_AtMostOneEntryPerLine ==
    (LenientDone /\ IsText /\ outcome.kind = "return") =>
        Len(outcome.entries) <= Len(NonBlankRaw)

\* C28: the validator accepts what the parsers return: for every text on
\* which parseTranscript or parseTranscriptFromText returns,
\* validateTranscriptEntries on the returned entries reports no error.
C28_ParserOutputIsValid ==
    pc = "validated" =>
        /\ outcome.result.isValid
        /\ outcome.result.errors = <<>>

\* C29: the totalDuration in the metadata of the analysis of a non-empty list
\* is what calculateDuration returns for that list, the greatest timestamp
\* of the list with its fields in two digits, in whatever order the entries
\* are.
C29_TotalDurationIsCalculateDuration ==
    (/\ pc = "done" /\ call = "analyzeTranscript"
     /\ outcome.kind = "return"
     /\ AllWellFormed(input)) =>
        /\ ~calculateDuration(input).isNull
        /\ outcome.metadata.totalDuration = calculateDuration(input).value
        /\ \A i \in 1..Len(input) :
              SecondsOf(input[i].timestamp) <= SecondsOf(outcome.metadata.totalDuration)

\* The place of a stage in parsing, analyzing, formatting, complete
StageRank(stage) ==
    CASE stage = "parsing" -> 1
      [] stage = "analyzing" -> 2
      [] stage = "formatting" -> 3
      [] stage = "complete" -> 4
      [] OTHER -> 5

\* C30: within one run of the analysis, whatever the latencies of the
\* responses, the stage only moves forward along parsing, analyzing,
\* formatting, complete, the progress never decreases while isAnalyzing is
\* true, and once the run has ended in error or complete no timer that is
\* still pending changes the stage or the progress.
C30_ProgressOnlyForward ==
    [][/\ (outcome.isAnalyzing /\ outcome'.isAnalyzing) =>
              /\ outcome'.progress >= outcome.progress
              /\ StageRank(outcome'.stage) >= StageRank(outcome.stage)
       /\ (pc = "ended" /\ pc' = "ended") =>
              /\ outcome'.stage = outcome.stage
              /\ outcome'.progress = outcome.progress]_vars

====
